---- MODULE Spec2Model ----
(***************************************************************************)
(* MODR request monitoring: the interception middleware, the capture       *)
(* controller, the capture service's transactional write and the event     *)
(* notifier, over a PostgreSQL store (READ COMMITTED, unique and foreign   *)
(* key constraints as declared by the schema).                             *)
(*                                                                         *)
(* Every slot is one logical task of the single-threaded event loop: a     *)
(* monitored HTTP request going through ModrMiddleware.capture(), or one   *)
(* invocation of CaptureController.captureRequest as a route handler.      *)
(* Synchronous stretches of code are one action; every await is a step.    *)
(***************************************************************************)
EXTENDS Integers, Sequences, FiniteSets, TLC

\* ------------------------------------------------------------------ bounds
MaxCaptures == 2

Slots == 1..MaxCaptures

\* JavaScript's undefined / null for string-valued fields; numeric fields that
\* may be undefined are sequences: <<>> is undefined, <<n>> is the number n.
Undefined == "undefined"
Null == "null"
NoId == <<>>

\* ---------------------------------------------------------- seeded store
\* 06_raw_insert_initial_data.sql
SeedStatusCodes ==
    {200, 201, 204, 301, 302, 304, 400, 401, 403, 404, 405, 422, 429, 500, 502, 503, 504}

SeedMethods == {"GET", "POST", "PUT", "PATCH", "DELETE", "HEAD", "OPTIONS"}

SeedHeaders ==
    {"Content-Type", "Authorization", "Accept", "User-Agent", "X-Forwarded-For",
     "Origin", "Referer", "Cache-Control", "Content-Length", "Host",
     "X-Requested-With", "Accept-Language", "Accept-Encoding", "Connection",
     "X-CSRF-Token"}

SeedSystemUserId == "00000000-0000-0000-0000-000000000000"

\* A user registered through the (external) user management; a valid v4 UUID.
RegisteredUserId == "7c9e6679-7425-40de-944b-e07fc1f90ae7"

\* validateRequestData's default for made_by
DefaultMadeBy == "10000000-0000-0000-0000-000000000000"

\* Rows carry the slot whose transaction wrote them (0: the seed) and whether
\* that transaction has committed.  Uncommitted rows are visible to their own
\* transaction only.
SeedRow(r) == r @@ [owner |-> 0, committed |-> TRUE]

\* Reads that see the uncommitted rows of other transactions
VisibleDirty(table, c) == table

Visible(table, c) == {r \in table : r.committed \/ r.owner = c}

Committed(table) == {r \in table : r.committed}

WrittenBy(table, c) == {r \in table : r.owner = c}

\* transaction.commit(): the transaction's rows become visible to everyone.
TxCommit(table, c) ==
    {IF r.owner = c THEN [r EXCEPT !.committed = TRUE] ELSE r : r \in table}

\* A rollback that discards nothing and leaves the rows in the store (writes
\* made outside the transaction).
TxRollbackKeeps(table, c) ==
    {IF r.owner = c THEN [r EXCEPT !.committed = TRUE] ELSE r : r \in table}

\* transaction.rollback(): the transaction's uncommitted rows are discarded.
TxRollback(table, c) == {r \in table : r.owner # c \/ r.committed}

\* A unique index that is not enforced.
UniqueOutcomeUnchecked(same, c) == "ok"

\* INSERT under a unique index, `same` being the rows holding the same key:
\* a committed (or own) row is a unique violation; another transaction's
\* uncommitted row makes the INSERT wait until that transaction ends.
UniqueOutcome(same, c) ==
    IF \E r \in same : r.committed \/ r.owner = c THEN "unique_violation"
    ELSE IF same # {} THEN "blocked"
    ELSE "ok"


\* ------------------------------------------------------------- validation
UuidA == "3f2504e0-4f89-41d3-9a0c-0305e82c3301"

\* uuidv4() called while serving slot c
uuidv4(c) == "uuidv4-" \o ToString(c)

\* The identifiers of the model that match the version-4 pattern
\* /^[0-9a-f]{8}-[0-9a-f]{4}-4[0-9a-f]{3}-[89ab][0-9a-f]{3}-[0-9a-f]{12}$/i
V4Uuids == {UuidA, RegisteredUserId} \cup {uuidv4(c) : c \in Slots}

isValidUUID(uuid) == uuid \in V4Uuids

\* String.prototype.toUpperCase on the method names of the model
toUpperCase(m) == IF m = "get" THEN "GET" ELSE m

validMethods == {"GET", "POST", "PUT", "DELETE", "PATCH", "OPTIONS", "HEAD"}

validateHttpMethod(method) ==
    IF method = Undefined THEN [isValid |-> TRUE, method |-> Null]
    ELSE [isValid |-> toUpperCase(method) \in validMethods,
          method |-> toUpperCase(method)]

\* !statusCode: undefined and 0 are falsy
validateStatusCode(statusCode) ==
    IF statusCode = <<>> \/ statusCode = <<0>> THEN [isValid |-> TRUE, statusCode |-> <<>>]
    ELSE [isValid |-> statusCode[1] >= 100 /\ statusCode[1] < 600,
          statusCode |-> statusCode]

\* ValidationUtils.isValidIPAddress: an IPv4 or IPv6 literal
isValidIPAddress(ip) == ip \in {"127.0.0.1", "::1", "203.0.113.7"}

\* ValidationUtils.sanitizeInput: some cleaned copy of the string
sanitizeInput(s) ==
    IF s = Undefined THEN Undefined ELSE IF s = "" THEN "" ELSE "clean:" \o s

\* a || b on optional numbers: the left operand unless it is undefined or 0
OrNum(a, b) == IF a = <<>> \/ a = <<0>> THEN b ELSE a

\* a || b on strings
OrStr(a, b) == IF a = Undefined \/ a = Null \/ a = "" THEN b ELSE a

Err(cond, msg) == IF cond THEN <<msg>> ELSE <<>>

\* Durations are held in tenths of a millisecond until they are rounded.
durationOf(data) == OrNum(data.responseTime, data.duration)

\* Math.round on tenths: the nearest integer, halves upwards
Math_round(tenths) == (tenths + 5) \div 10

\* A validation that finds nothing wrong
validationErrorsNone(data) == <<>>

\* JSON.parse throws on a string that is not JSON
NotJson == "{bad json"

validationErrors(data) ==
    Err(data.method = Undefined, "method is required and must be a string")
    \o Err(data.method # Undefined /\ ~validateHttpMethod(data.method).isValid,
           "Invalid HTTP method")
    \o Err(data.path = Undefined, "path is required and must be a string")
    \o Err(data.statusCode # <<>> /\ ~validateStatusCode(data.statusCode).isValid,
           "Status code must be between 100 and 599")
    \o Err(data.uuid # Undefined /\ ~isValidUUID(data.uuid),
           "uuid must be a valid UUID format")
    \o Err(data.user_id # Undefined /\ ~isValidUUID(data.user_id),
           "user_id must be a valid UUID format")
    \o Err((data.responseTime # <<>> \/ data.duration # <<>>)
           /\ (durationOf(data) = <<>> \/ durationOf(data)[1] < 0
               \/ durationOf(data)[1] > 3000000),
           "duration must be a non-negative number less than 300000ms")
    \o Err(data.ipAddress # Undefined /\ ~isValidIPAddress(data.ipAddress),
           "ipAddress must be a valid IP address")
    \o Err(data.requestBody = NotJson,
           "requestBody must be valid JSON if provided as string")
    \o Err(data.responseBody = NotJson,
           "responseBody must be valid JSON if provided as string")

validateRequestData(c, data) ==
    [isValid |-> validationErrors(data) = <<>>,
     errors |-> validationErrors(data),
     data |->
        [method |-> IF data.method = Undefined THEN Undefined
                    ELSE validateHttpMethod(data.method).method,
         path |-> data.path,
         statusCode |-> IF data.statusCode # <<>>
                        THEN validateStatusCode(data.statusCode).statusCode
                        ELSE <<200>>,
         uuid |-> OrStr(data.uuid, uuidv4(c)),
         user_id |-> OrStr(data.user_id, DefaultMadeBy),
         duration |-> IF data.responseTime # <<>> \/ data.duration # <<>>
                      THEN IF durationOf(data) = <<>> THEN <<>>
                           ELSE <<Math_round(durationOf(data)[1])>>
                      ELSE <<0>>,
         ipAddress |-> OrStr(data.ipAddress, "127.0.0.1"),
         controller |-> OrStr(data.controller, data.path),
         requestBody |-> data.requestBody,
         responseBody |-> data.responseBody,
         headers |-> data.headers,
         error |-> data.error]]

\* A headers object is the sequence of its properties in key order; the
\* object sanitizeHeaders builds is a function from its keys to their strings.
Header(name, value) == [name |-> name, type |-> "string", value |-> value]

NoHeaders == <<>>

AcceptOnly == <<Header("Accept", "text/html")>>

MixedHeaders ==
    <<Header("Accept", "text/html"), Header("origin", ""), Header("host", "api.local"),
      [name |-> "content-length", type |-> "number", value |-> "42"],
      Header("User-Agent", "curl/8")>>

toLowerCaseName(h) ==
    CASE h = "Accept" -> "accept"
      [] h = "Origin" -> "origin"
      [] h = "User-Agent" -> "user-agent"
      [] OTHER -> h

\* Only string-valued entries are kept, under the lower-cased key; a later
\* entry with the same lower-cased key replaces an earlier one.
sanitizeHeaders(headers) ==
    LET kept == {i \in 1..Len(headers) : headers[i].type = "string"}
        keys == {toLowerCaseName(headers[i].name) : i \in kept}
        last(k) == CHOOSE i \in kept :
                      /\ toLowerCaseName(headers[i].name) = k
                      /\ \A j \in kept : toLowerCaseName(headers[j].name) = k => j <= i
    IN [k \in keys |-> sanitizeInput(headers[last(k)].value)]

\* A test that takes every key for a value
HasKey(headers, headerName) == headerName \in DOMAIN headers

\* if (headers[headerName]): the key is there and its string is not empty
HasValue(headers, headerName) ==
    headerName \in DOMAIN headers /\ headers[headerName] # ""

\* The documents posted as bodies are named, not spelled out:
\* {"t":"aaa..."} with 99993 letters, {"t":"..."} with 60000 two-byte
\* letters, and {"t":"aaa..."} with 2040 letters.
BigBody == "big document"
\* The object {} and the number 5 (not the text "5")
EmptyObject == "{}"
NumberBody == "5"
WideBody == "wide document"
Kb2Body == "2 KB document"

\* JSON.stringify(body): the number of UTF-16 units of the text (.length) and
\* the number of its UTF-8 bytes (Buffer.byteLength). A truncation marker is
\* held as its own JSON text, which is ASCII.
JSON_stringify(body) ==
    CASE body = "object" -> [length |-> 7, byteLength |-> 7]
      [] body = BigBody -> [length |-> 100001, byteLength |-> 100001]
      [] body = WideBody -> [length |-> 60008, byteLength |-> 120008]
      [] body = Kb2Body -> [length |-> 2048, byteLength |-> 2048]
      [] OTHER -> [length |-> Len(body), byteLength |-> Len(body)]

\* { _truncated: true, _originalSize: n }
TruncatedMarker(n) == "{\"_truncated\":true,\"_originalSize\":" \o ToString(n) \o "}"

\* !data: undefined, null, "" ...
sanitizeJsonData(body) ==
    IF body = Undefined \/ body = Null \/ body = "" THEN Null
    ELSE IF JSON_stringify(body).length > 100000
    THEN TruncatedMarker(JSON_stringify(body).length)
    ELSE body

sanitizeRequestData(data) ==
    [data EXCEPT !.path = sanitizeInput(data.path),
                 !.controller = sanitizeInput(data.controller),
                 !.headers = sanitizeHeaders(data.headers),
                 !.requestBody = sanitizeJsonData(data.requestBody),
                 !.responseBody = sanitizeJsonData(data.responseBody)]


\* ------------------------------------------------------------------ state
\* ------------------------------------------------------------- middleware
\* The characters of the strings the path rules read
Chars(str) ==
    CASE str = "/modr" -> <<"/", "m", "o", "d", "r">>
      [] str = "/api/v1/modr" -> <<"/", "a", "p", "i", "/", "v", "1", "/", "m", "o", "d", "r">>
      [] str = "/api/v1/docs" -> <<"/", "a", "p", "i", "/", "v", "1", "/", "d", "o", "c", "s">>
      [] str = "/swagger" -> <<"/", "s", "w", "a", "g", "g", "e", "r">>
      [] str = "/favicon.ico" -> <<"/", "f", "a", "v", "i", "c", "o", "n", ".", "i", "c", "o">>
      [] str = "/health" -> <<"/", "h", "e", "a", "l", "t", "h">>
      [] str = "/socket.io" -> <<"/", "s", "o", "c", "k", "e", "t", ".", "i", "o">>
      [] str = "/Health?x" -> <<"/", "H", "e", "a", "l", "t", "h", "?", "x">>
      [] str = "/healthcheck" -> <<"/", "h", "e", "a", "l", "t", "h", "c", "h", "e", "c", "k">>
      [] str = "/api/users" -> <<"/", "a", "p", "i", "/", "u", "s", "e", "r", "s">>
      [] str = "/api/orders" -> <<"/", "a", "p", "i", "/", "o", "r", "d", "e", "r", "s">>
      [] str = "/api/socket.io" -> <<"/", "a", "p", "i", "/", "s", "o", "c", "k", "e", "t", ".", "i", "o">>
      [] str = "/health/db" -> <<"/", "h", "e", "a", "l", "t", "h", "/", "d", "b">>
      [] str = "socket.io" -> <<"s", "o", "c", "k", "e", "t", ".", "i", "o">>

lowerChar(ch) == IF ch = "H" THEN "h" ELSE ch

toLowerCase(chars) == [i \in 1..Len(chars) |-> lowerChar(chars[i])]

startsWith(chars, prefix) ==
    /\ Len(prefix) <= Len(chars)
    /\ SubSeq(chars, 1, Len(prefix)) = prefix

includes(chars, sub) ==
    \E i \in 1..(Len(chars) - Len(sub) + 1) : SubSeq(chars, i, i + Len(sub) - 1) = sub

\* app.js, lines 52-60
bypassPaths ==
    <<"/modr", "/api/v1/modr", "/api/v1/docs", "/swagger", "/favicon.ico", "/health",
      "/socket.io">>

\* A path rule that takes every path starting with an entry
matchesSomePrefix(url, paths) ==
    \E i \in 1..Len(paths) :
        startsWith(toLowerCase(Chars(url)), toLowerCase(Chars(paths[i])))

\* some(...) of app.js and of shouldCapture: the path equals an entry, or
\* starts with the entry followed by "/" or "?", all in lower case
matchesSome(url, paths) ==
    LET reqPath == toLowerCase(Chars(url)) IN
    \E i \in 1..Len(paths) :
        LET p == toLowerCase(Chars(paths[i])) IN
        \/ reqPath = p
        \/ startsWith(reqPath, p \o <<"/">>)
        \/ startsWith(reqPath, p \o <<"?">>)

\* The gate app.js mounts before the middleware: sets req.modrBypass
shouldBypass(url) == matchesSome(url, bypassPaths)

\* ModrMiddleware's constructor
DefaultOptions ==
    [ignorePaths |-> <<>>, onlyErrors |-> FALSE, captureResponseBody |-> TRUE,
     maxBodySize |-> 100000,
     captureMethods |-> {"GET", "POST", "PUT", "DELETE", "PATCH"}]

\* shouldCapture without the bypass check
shouldCaptureNoBypass(opts, req, res) ==
    /\ req.method \in opts.captureMethods
    /\ ~matchesSome(req.url, opts.ignorePaths)
    /\ ~(\/ req.upgrade = "websocket"
         \/ req.secWebsocketKey # Undefined
         \/ includes(Chars(req.url), Chars("socket.io")))
    /\ ~(opts.onlyErrors /\ res.statusCode < 400)

\* ModrMiddleware.shouldCapture(req, res)
shouldCapture(opts, req, res) ==
    IF req.modrBypass THEN FALSE
    ELSE IF req.method \notin opts.captureMethods THEN FALSE
    ELSE IF matchesSome(req.url, opts.ignorePaths) THEN FALSE
    ELSE IF \/ req.upgrade = "websocket"
            \/ req.secWebsocketKey # Undefined
            \/ includes(Chars(req.url), Chars("socket.io")) THEN FALSE
    ELSE IF opts.onlyErrors /\ res.statusCode < 400 THEN FALSE
    ELSE TRUE

VARIABLES
    pc,               \* where each slot's task stands
    call,             \* the slot's input: the HTTP request it serves
    data,             \* executeCapture's argument (the sanitized capture data)
    loc,              \* executeCapture's locals
    fault,            \* the error thrown inside the slot's capture, if any
    result,           \* what RequestCaptureService.captureRequest returned
    now,              \* the wall clock (new Date())
    methods, status, headers, payloads, responses, requests, request_headers,
    exceptions, users,
    emitted,          \* the events handed to io.emit, in order
    logged,           \* slots whose failure was written to the console
    options,          \* the middleware's options
    unhandled,        \* slots whose failure escaped into the host process
    connections,      \* SocketManager.connections: socket id -> socket handle
    sockets,          \* what each socket of the io server has done so far
    raised            \* sockets whose 'connection' listener threw

tables == <<methods, status, headers, payloads, responses, requests,
            request_headers, exceptions, users>>

\* The socket notifier's own state
notifier == <<connections, sockets, raised>>

vars == <<pc, call, data, loc, fault, result, now, tables, emitted, logged, options,
          unhandled, notifier>>

MaxClock == 1

\* The sockets the io server can hand to its 'connection' listeners
SocketIds == {"sock-1", "sock-2", "sock-3", "sock-4", "sock-5"}

\* The socket object the io server passes to the listener
socketHandle(id) == [id |-> id]

\* new SocketManager(io): this.connections = new Map()
InitNotifier ==
    /\ connections = [id \in {} |-> socketHandle(id)]
    /\ sockets = [id \in SocketIds |-> "new"]
    /\ raised = {}

\* The error an await threw, and the step that threw it
NoFault == [name |-> "none", at |-> "none"]

NoCall == [kind |-> "none"]

NoData == [method |-> Undefined]

NoLoc == [method_id |-> NoId, status_id |-> NoId, payload_id |-> NoId,
          response_id |-> NoId, request_id |-> Undefined, hi |-> 0,
          header_id |-> NoId]

Init ==
    /\ pc = [c \in Slots |-> "idle"]
    /\ call = [c \in Slots |-> NoCall]
    /\ data = [c \in Slots |-> NoData]
    /\ loc = [c \in Slots |-> NoLoc]
    /\ fault = [c \in Slots |-> NoFault]
    /\ result = [c \in Slots |-> "none"]
    /\ now = 0
    /\ methods = {SeedRow([name |-> m]) : m \in SeedMethods}
    /\ status = {SeedRow([code |-> <<k>>]) : k \in SeedStatusCodes}
    /\ headers = {SeedRow([name |-> h]) : h \in SeedHeaders}
    /\ payloads = {}
    /\ responses = {}
    /\ requests = {}
    /\ request_headers = {}
    /\ exceptions = {}
    /\ users = {SeedSystemUserId, RegisteredUserId}
    /\ emitted = <<>>
    /\ logged = {}
    /\ options = DefaultOptions
    /\ unhandled = {}
    /\ InitNotifier

\* A reference row's id (the SERIAL key): the natural key and the writer.
MethodId(r) == <<r.name, r.owner>>
StatusId(r) == <<r.code, r.owner>>
HeaderId(r) == <<r.name, r.owner>>


\* --------------------------------------------------- capture service steps
SetPc(c, p) == pc' = [pc EXCEPT ![c] = p]

\* captureRequest's catch: the error is logged and mapped by
\* ErrorHandler.handleDatabaseError.
handleDatabaseError(f) ==
    IF f \in {"unique_violation", "not_null"} THEN "VALIDATION_ERROR" ELSE "DATABASE_ERROR"

\* The call returns r; its arguments and locals are gone with its frame.
Returns(c, r) ==
    /\ result' = [result EXCEPT ![c] = r]
    /\ logged' = IF r = "success" THEN logged ELSE logged \cup {c}
    /\ UNCHANGED <<options, notifier, unhandled>>
    /\ data' = [data EXCEPT ![c] = NoData]
    /\ loc' = [loc EXCEPT ![c] = NoLoc]
    /\ SetPc(c, "done")

Throws(c, f) ==
    /\ fault' = [fault EXCEPT ![c] = [name |-> f, at |-> pc[c]]]
    /\ SetPc(c, "rollback")

\* RequestCaptureService.captureRequest up to its first await: validation,
\* sanitization, and executeCapture's call of sequelize.transaction().
captureRequest(c, requestData) ==
    LET validation == validateRequestData(c, requestData) IN
    IF ~validation.isValid
    THEN /\ Returns(c, "VALIDATION_ERROR")
         /\ UNCHANGED fault
    ELSE /\ data' = [data EXCEPT ![c] = sanitizeRequestData(validation.data)]
         /\ SetPc(c, "begin")
         /\ UNCHANGED <<loc, fault, result, logged, options, notifier, unhandled>>

\* await sequelize.transaction()
BeginTx(c) ==
    /\ pc[c] = "begin"
    /\ SetPc(c, "method")
    /\ UNCHANGED <<call, data, loc, fault, result, now, tables, emitted, logged,
                   options, notifier, unhandled>>

getOrCreateMethod(c) ==
    /\ pc[c] \in {"method", "method_create"}
    /\ LET same == {r \in methods : r.name = data[c].method}
           found == same \cap Visible(methods, c)
           row == [name |-> data[c].method, owner |-> c, committed |-> FALSE]
       IN IF pc[c] = "method"
          THEN /\ IF found # {}
                  THEN /\ loc' = [loc EXCEPT ![c].method_id = MethodId(CHOOSE r \in found : TRUE)]
                       /\ SetPc(c, "status")
                  ELSE /\ SetPc(c, "method_create")
                       /\ UNCHANGED loc
               /\ UNCHANGED <<methods, fault>>
          ELSE /\ UniqueOutcome(same, c) # "blocked"
               /\ IF UniqueOutcome(same, c) = "ok"
                  THEN /\ methods' = methods \cup {row}
                       /\ loc' = [loc EXCEPT ![c].method_id = MethodId(row)]
                       /\ SetPc(c, "status")
                       /\ UNCHANGED fault
                  ELSE /\ Throws(c, "unique_violation")
                       /\ UNCHANGED <<methods, loc>>
    /\ UNCHANGED <<call, data, result, now, status, headers, payloads, responses,
                   requests, request_headers, exceptions, users, emitted, logged,
                   options, notifier, unhandled>>

\* Object.keys(body).length: the own enumerable keys of an object, none for
\* a number
Object_keys_length(body) ==
    CASE body = EmptyObject -> 0
      [] body = NumberBody -> 0
      [] body = "object" -> 1
      [] body \in {BigBody, WideBody, Kb2Body} -> 1
      [] OTHER -> 2

\* executeCapture between the status and the Request row: which await is next
AfterStatus(d) ==
    IF d.requestBody # Null /\ Object_keys_length(d.requestBody) > 0 THEN "payload"
    ELSE IF d.responseBody # Null THEN "response"
    ELSE "request"

getOrCreateStatus(c) ==
    /\ pc[c] \in {"status", "status_create"}
    /\ LET same == {r \in status : r.code = data[c].statusCode}
           found == same \cap Visible(status, c)
           row == [code |-> data[c].statusCode, owner |-> c, committed |-> FALSE]
       IN IF pc[c] = "status"
          THEN /\ IF found # {}
                  THEN /\ loc' = [loc EXCEPT ![c].status_id = StatusId(CHOOSE r \in found : TRUE)]
                       /\ SetPc(c, AfterStatus(data[c]))
                  ELSE /\ SetPc(c, "status_create")
                       /\ UNCHANGED loc
               /\ UNCHANGED <<status, fault>>
          ELSE /\ UniqueOutcome(same, c) # "blocked"
               /\ IF row.code = <<>>
                  THEN /\ Throws(c, "not_null")
                       /\ UNCHANGED <<status, loc>>
                  ELSE IF UniqueOutcome(same, c) = "ok"
                  THEN /\ status' = status \cup {row}
                       /\ loc' = [loc EXCEPT ![c].status_id = StatusId(row)]
                       /\ SetPc(c, AfterStatus(data[c]))
                       /\ UNCHANGED fault
                  ELSE /\ Throws(c, "unique_violation")
                       /\ UNCHANGED <<status, loc>>
    /\ UNCHANGED <<call, data, result, now, methods, headers, payloads, responses,
                   requests, request_headers, exceptions, users, emitted, logged,
                   options, notifier, unhandled>>

createPayload(c) ==
    /\ pc[c] = "payload"
    /\ payloads' = payloads \cup
          {[payload_id |-> <<"payload", c>>, payload_json |-> data[c].requestBody,
            sent_from |-> data[c].ipAddress, owner |-> c, committed |-> FALSE]}
    /\ loc' = [loc EXCEPT ![c].payload_id = <<"payload", c>>]
    /\ SetPc(c, IF data[c].responseBody # Null THEN "response" ELSE "request")
    /\ UNCHANGED <<call, data, fault, result, now, methods, status, headers, responses,
                   requests, request_headers, exceptions, users, emitted, logged,
                   options, notifier, unhandled>>

\* bytes / 1000, cut to whole thousands
KBOfThousand(bytes) == [whole |-> bytes \div 1000, parts1024 |-> 0]

\* bytes / 1024, exact in a double: the whole kilobytes and the 1024ths over
KB(bytes) == [whole |-> bytes \div 1024, parts1024 |-> bytes % 1024]

createResponse(c) ==
    /\ pc[c] = "response"
    /\ LET responseSize == IF data[c].responseBody # Null
                           THEN KB(JSON_stringify(data[c].responseBody).byteLength)
                           ELSE KB(0)
       IN responses' = responses \cup
          {[response_id |-> <<"response", c>>, content |-> data[c].responseBody,
            size |-> responseSize, owner |-> c, committed |-> FALSE]}
    /\ loc' = [loc EXCEPT ![c].response_id = <<"response", c>>]
    /\ SetPc(c, "request")
    /\ UNCHANGED <<call, data, fault, result, now, methods, status, headers, payloads,
                   requests, request_headers, exceptions, users, emitted, logged,
                   options, notifier, unhandled>>

importantHeaders ==
    <<"user-agent", "content-type", "accept", "origin", "referer", "x-forwarded-for">>

\* processHeaders' loop: the next allow-listed name after position i that the
\* captured headers hold, 0 when the loop is over
NextHeader(i, hs) ==
    IF \E j \in (i + 1)..Len(importantHeaders) : HasValue(hs, importantHeaders[j])
    THEN CHOOSE j \in (i + 1)..Len(importantHeaders) :
            /\ HasValue(hs, importantHeaders[j])
            /\ \A k \in (i + 1)..(j - 1) : ~HasValue(hs, importantHeaders[k])
    ELSE 0

\* executeCapture emitting as soon as the headers are processed
AfterHeadersEmitFirst(d) == "emit"

\* executeCapture after processHeaders: the exception step or the commit
AfterHeaders(d) ==
    IF d.error # <<>> /\ d.error[1].message # Undefined THEN "exception" ELSE "commit"

createMainRequest(c) ==
    /\ pc[c] = "request"
    /\ LET same == {r \in requests : r.request_id = data[c].uuid}
           outcome == UniqueOutcome(same, c)
       IN /\ outcome # "blocked"
          /\ IF outcome = "unique_violation"
             THEN /\ Throws(c, "unique_violation")
                  /\ UNCHANGED <<requests, loc, now>>
             ELSE IF data[c].user_id \notin users
             THEN /\ Throws(c, "foreign_key")
                  /\ UNCHANGED <<requests, loc, now>>
             ELSE \E t \in {now, now + 1} :
                  /\ t <= MaxClock
                  /\ now' = t
                  /\ requests' = requests \cup
                       {[request_id |-> data[c].uuid,
                         status_id |-> loc[c].status_id,
                         method_id |-> loc[c].method_id,
                         payload_id |-> loc[c].payload_id,
                         response_id |-> loc[c].response_id,
                         path |-> data[c].path,
                         controller |-> data[c].controller,
                         happened |-> t,
                         duration |-> data[c].duration,
                         made_by |-> data[c].user_id,
                         owner |-> c, committed |-> FALSE]}
                  /\ loc' = [loc EXCEPT ![c].request_id = data[c].uuid,
                                        ![c].hi = NextHeader(0, data[c].headers)]
                  /\ SetPc(c, IF NextHeader(0, data[c].headers) # 0 THEN "header"
                              ELSE AfterHeaders(data[c]))
                  /\ UNCHANGED fault
    /\ UNCHANGED <<call, data, result, methods, status, headers, payloads, responses,
                   request_headers, exceptions, users, emitted, logged,
                   options, notifier, unhandled>>


\* INSERT INTO request_headers ... with no conflict clause and no key to
\* conflict with: the pair is stored again.
InsertLinkPlain(table, rid, hid, c) ==
    table \cup {[request_id |-> rid, header_id |-> hid, owner |-> c,
                 n |-> Cardinality({r \in table : r.request_id = rid /\ r.header_id = hid}),
                 committed |-> FALSE]}

\* INSERT INTO request_headers (request_id, header_id) VALUES (?, ?)
\* ON CONFLICT DO NOTHING, under PRIMARY KEY (request_id, header_id)
InsertLink(table, rid, hid, c) ==
    IF \E r \in table : r.request_id = rid /\ r.header_id = hid
    THEN table
    ELSE table \cup {[request_id |-> rid, header_id |-> hid, owner |-> c, n |-> 0,
                      committed |-> FALSE]}

processHeaders(c) ==
    /\ pc[c] \in {"header", "header_create", "header_link"}
    /\ LET headerName == importantHeaders[loc[c].hi]
           same == {r \in headers : r.name = headerName}
           found == same \cap Visible(headers, c)
           row == [name |-> headerName, owner |-> c, committed |-> FALSE]
           next == NextHeader(loc[c].hi, data[c].headers)
       IN CASE pc[c] = "header" ->
                 /\ IF found # {}
                    THEN /\ loc' = [loc EXCEPT ![c].header_id = HeaderId(CHOOSE r \in found : TRUE)]
                         /\ SetPc(c, "header_link")
                    ELSE /\ SetPc(c, "header_create")
                         /\ UNCHANGED loc
                 /\ UNCHANGED <<headers, request_headers, fault>>
            [] pc[c] = "header_create" ->
                 /\ UniqueOutcome(same, c) # "blocked"
                 /\ IF UniqueOutcome(same, c) = "ok"
                    THEN /\ headers' = headers \cup {row}
                         /\ loc' = [loc EXCEPT ![c].header_id = HeaderId(row)]
                         /\ SetPc(c, "header_link")
                         /\ UNCHANGED fault
                    ELSE /\ Throws(c, "unique_violation")
                         /\ UNCHANGED <<headers, loc>>
                 /\ UNCHANGED request_headers
            [] pc[c] = "header_link" ->
                 \* a conflicting row of a transaction still open makes the
                 \* INSERT wait
                 /\ ~\E r \in request_headers :
                        /\ r.request_id = loc[c].request_id
                        /\ r.header_id = loc[c].header_id
                        /\ ~r.committed /\ r.owner # c
                 /\ request_headers' =
                        InsertLink(request_headers, loc[c].request_id, loc[c].header_id, c)
                 /\ loc' = [loc EXCEPT ![c].hi = next]
                 /\ SetPc(c, IF next # 0 THEN "header" ELSE AfterHeaders(data[c]))
                 /\ UNCHANGED <<headers, fault>>
    /\ UNCHANGED <<call, data, result, now, methods, status, payloads, responses,
                   requests, exceptions, users, emitted, logged, options, notifier, unhandled>>

\* validateExceptionData on captureException's first argument
validateExceptionData(exceptionData) ==
    Err(exceptionData.requestId = Undefined \/ ~isValidUUID(exceptionData.requestId),
        "requestId is required and must be a valid UUID")
    \o Err(exceptionData.message = Undefined,
           "message is required and must be a string")
    \o Err(exceptionData.type \notin
               {Undefined, "system", "business", "validation", "authentication",
                "authorization"},
           "type must be one of: system, business, validation, authentication, authorization")

\* What captureException(exceptionData) reads from the argument executeCapture
\* hands it: request.request_id, a string, whose requestId, message and type
\* properties are all undefined.
PropertiesOfString(str) ==
    [requestId |-> Undefined, message |-> Undefined, type |-> Undefined]

\* executeCapture's step 7: this.captureException(request.request_id,
\* data.error, transaction) runs RequestCaptureService.captureException
\* (exceptionData), which validates its one argument and returns a result
\* object; it never throws.
captureException(c) ==
    /\ pc[c] = "exception"
    /\ LET exceptionData == PropertiesOfString(loc[c].request_id)
       IN IF validateExceptionData(exceptionData) # <<>>
          THEN /\ logged' = logged \cup {c}
               /\ UNCHANGED <<options, notifier, unhandled>>
               /\ UNCHANGED exceptions
          ELSE IF ~\E r \in Committed(requests) : r.request_id = exceptionData.requestId
          THEN \* models.Request.findByPk(requestId), outside the transaction
               UNCHANGED <<exceptions, logged, options, notifier, unhandled>>
          ELSE /\ exceptions' = exceptions \cup
                     {[request_id |-> exceptionData.requestId,
                       message |-> exceptionData.message,
                       type |-> OrStr(exceptionData.type, "system"),
                       owner |-> c, committed |-> TRUE]}
               /\ UNCHANGED <<logged, options, notifier, unhandled>>
    /\ SetPc(c, "commit")
    /\ UNCHANGED <<call, data, loc, fault, result, now, methods, status, headers,
                   payloads, responses, requests, request_headers, users, emitted>>

\* await transaction.commit()
commit(c) ==
    /\ pc[c] = "commit"
    /\ methods' = TxCommit(methods, c)
    /\ status' = TxCommit(status, c)
    /\ headers' = TxCommit(headers, c)
    /\ payloads' = TxCommit(payloads, c)
    /\ responses' = TxCommit(responses, c)
    /\ requests' = TxCommit(requests, c)
    /\ request_headers' = TxCommit(request_headers, c)
    /\ exceptions' = TxCommit(exceptions, c)
    /\ SetPc(c, "emit")
    /\ UNCHANGED <<call, data, loc, fault, result, now, users, emitted, logged,
                   options, notifier, unhandled>>

\* executeCapture's catch: await transaction.rollback(); throw error - and
\* captureRequest's catch, which logs and returns the failure.
rollback(c) ==
    /\ pc[c] = "rollback"
    /\ methods' = TxRollback(methods, c)
    /\ status' = TxRollback(status, c)
    /\ headers' = TxRollback(headers, c)
    /\ payloads' = TxRollback(payloads, c)
    /\ responses' = TxRollback(responses, c)
    /\ requests' = TxRollback(requests, c)
    /\ request_headers' = TxRollback(request_headers, c)
    /\ exceptions' = TxRollback(exceptions, c)
    /\ Returns(c, handleDatabaseError(fault[c].name))
    /\ UNCHANGED <<call, fault, now, users, emitted>>

\* The store fails the statement a transaction is waiting on (connection
\* lost, timeout): the await rejects.
DbSteps == {"method", "method_create", "status", "status_create", "payload",
            "response", "request", "header", "header_create", "header_link", "commit"}

DatabaseFailure(c) ==
    /\ pc[c] \in DbSteps \cup {"begin"}
    /\ IF pc[c] = "begin"
       THEN \* sequelize.transaction() is awaited outside executeCapture's try
            /\ fault' = [fault EXCEPT ![c] = [name |-> "connection", at |-> "begin"]]
            /\ Returns(c, "DATABASE_ERROR")
       ELSE /\ Throws(c, "connection")
            /\ UNCHANGED <<result, logged, data, loc, options, notifier, unhandled>>
    /\ UNCHANGED <<call, now, tables, emitted>>


\* ------------------------------------------------------------ notification
RowOf(table, c) == CHOOSE r \in table : r.owner = c

eventData(request, method, st) ==
    [id |-> request.request_id, method |-> method.name, path |-> request.path,
     statusCode |-> st.code[1], duration |-> request.duration[1],
     timestamp |-> request.happened]

Event(channel, payload) == [channel |-> channel, payload |-> payload]

\* emitRequestEvent with the error channel fed by every capture
emitRequestEventAlways(io, request, method, st) ==
    IF io = "absent" THEN <<>>
    ELSE <<Event("modr:new_request", eventData(request, method, st)),
           Event("modr:error_request", eventData(request, method, st))>>

\* emitRequestEvent(request, method, status): the events it hands to io.emit
emitRequestEvent(io, request, method, st) ==
    IF io = "absent" THEN <<>>
    ELSE <<Event("modr:new_request", eventData(request, method, st))>>
         \o (IF st.code[1] >= 400
             THEN <<Event("modr:error_request", eventData(request, method, st))>>
             ELSE <<>>)

\* The rows executeCapture holds in request, method and status
HeldRequest(c) == CHOOSE r \in requests : r.request_id = loc[c].request_id /\ r.owner = c
HeldMethod(c) == CHOOSE r \in methods : MethodId(r) = loc[c].method_id
HeldStatus(c) == CHOOSE r \in status : StatusId(r) = loc[c].status_id

\* executeCapture after the commit: this.emitRequestEvent(...); return request
emit(c) ==
    /\ pc[c] = "emit"
    /\ emitted' = emitted \o
          emitRequestEvent(call[c].io, HeldRequest(c), HeldMethod(c), HeldStatus(c))
    /\ Returns(c, "success")
    /\ UNCHANGED <<call, fault, now, tables>>

\* io.emit throws on its first use: executeCapture's catch calls rollback()
\* on the finished transaction, which rejects; captureRequest's catch returns
\* the failure.  The committed rows stay.
emitThrows(c) ==
    /\ pc[c] = "emit"
    /\ call[c].io = "attached"
    /\ fault' = [fault EXCEPT ![c] = [name |-> "emit", at |-> "emit"]]
    /\ Returns(c, "DATABASE_ERROR")
    /\ UNCHANGED <<call, now, tables, emitted>>

\* -------------------------------------------------------------- controller
\* CaptureController.captureRequest(req, res), lines 16-30: the capture data
\* read from req.body
requestDataOf(req) ==
    [method |-> OrStr(req.body.method, OrStr(req.method, "GET")),
     path |-> OrStr(req.body.path, OrStr(req.path, "/")),
     statusCode |-> OrNum(req.body.statusCode, req.body.status_code),
     requestBody |-> req.body.requestBody,
     responseBody |-> req.body.responseBody,
     headers |-> IF req.body.headers # <<>> THEN req.body.headers[1]
                 ELSE IF req.headers # <<>> THEN req.headers[1]
                 ELSE NoHeaders,
     ipAddress |-> OrStr(req.body.ipAddress, req.ip),
     responseTime |-> OrNum(req.body.responseTime, req.body.duration),
     user_id |-> req.body.user_id,
     controller |-> req.body.controller,
     uuid |-> req.body.uuid,
     error |-> req.body.error,
     duration |-> req.body.duration]

\* A capture body posted to the controller
Body(s, h, u, id) ==
    [method |-> IF s = <<201>> THEN "POST" ELSE "GET",
     path |-> IF s = <<201>> THEN "/api/users" ELSE "/api/widgets/999",
     statusCode |-> s,
     status_code |-> <<>>,
     requestBody |-> IF s = <<418>> THEN "object" ELSE Undefined,
     responseBody |-> IF s = <<418>> THEN "object" ELSE Undefined,
     size |-> <<7>>,
     headers |-> h,
     ipAddress |-> Undefined,
     responseTime |-> <<454>>,
     duration |-> <<>>,
     user_id |-> u,
     controller |-> Undefined,
     uuid |-> id,
     error |-> IF s = <<404>>
               THEN <<[message |-> "not found", type |-> Undefined]>> ELSE <<>>]

BodyStatusCodes == {<<200>>, <<201>>, <<404>>, <<418>>}

Call(s, h, u, id, io) == [body |-> Body(s, h, u, id), io |-> io]

\* The calls of the model: the body posted and whether the controller's
\* service was built with a socket server.
RouteCalls ==
    {Call(s, <<NoHeaders>>, RegisteredUserId, Undefined, "attached") : s \in BodyStatusCodes}
    \cup
    {Call(<<201>>, <<AcceptOnly>>, RegisteredUserId, Undefined, "attached"),
     Call(<<418>>, <<MixedHeaders>>, RegisteredUserId, Undefined, "attached")}
    \cup
    {Call(<<201>>, <<>>, RegisteredUserId, Undefined, "absent"),
     Call(<<201>>, <<NoHeaders>>, RegisteredUserId, UuidA, "attached"),
     Call(<<201>>, <<NoHeaders>>, Undefined, Undefined, "attached"),
     [Call(<<201>>, <<NoHeaders>>, RegisteredUserId, Undefined, "attached")
        EXCEPT !.body.method = "TRACE"]}
    \cup
    {Call(<<99>>, <<NoHeaders>>, RegisteredUserId, Undefined, "attached"),
     Call(<<201>>, <<NoHeaders>>, RegisteredUserId, "not-a-uuid", "attached"),
     Call(<<201>>, <<NoHeaders>>, "42", Undefined, "attached"),
     [Call(<<201>>, <<NoHeaders>>, RegisteredUserId, Undefined, "attached")
        EXCEPT !.body.responseTime = <<-10>>],
     [Call(<<201>>, <<NoHeaders>>, RegisteredUserId, Undefined, "attached")
        EXCEPT !.body.ipAddress = "999.1.1.1"],
     [Call(<<201>>, <<NoHeaders>>, RegisteredUserId, Undefined, "attached")
        EXCEPT !.body.requestBody = NotJson]}
    \cup
    {[Call(<<201>>, <<NoHeaders>>, RegisteredUserId, Undefined, "attached")
        EXCEPT !.body.requestBody = BigBody, !.body.responseBody = BigBody],
     [Call(<<201>>, <<NoHeaders>>, RegisteredUserId, Undefined, "attached")
        EXCEPT !.body.requestBody = WideBody, !.body.responseBody = Kb2Body]}
    \cup
    {[Call(<<201>>, <<NoHeaders>>, RegisteredUserId, Undefined, "attached")
        EXCEPT !.body.responseTime = <<3000000>>, !.body.requestBody = NumberBody,
               !.body.responseBody = NumberBody],
     [Call(<<201>>, <<NoHeaders>>, RegisteredUserId, Undefined, "attached")
        EXCEPT !.body.responseTime = <<3000001>>],
     [Call(<<100>>, <<NoHeaders>>, RegisteredUserId, Undefined, "attached")
        EXCEPT !.body.responseTime = <<0>>, !.body.requestBody = EmptyObject],
     [Call(<<599>>, <<NoHeaders>>, RegisteredUserId, Undefined, "attached")
        EXCEPT !.body.responseTime = <<>>, !.body.duration = <<3000000>>]}
    \cup
    {Call(s, <<NoHeaders>>, RegisteredUserId, Undefined, "attached") :
        s \in {<<0>>, <<600>>, <<-1>>}}

\* Slots are taken in order.
Free(c) == pc[c] = "idle" /\ \A d \in Slots : d < c => pc[d] # "idle"

\* The finish handler's promise rejected and nothing caught it
OnCaptureRejectedUncaught(c) ==
    /\ unhandled' = unhandled \cup {c}
    /\ result' = [result EXCEPT ![c] = "rejected"]
    /\ SetPc(c, "done")
    /\ UNCHANGED <<data, loc, fault, logged, options, notifier>>

\* The finish handler's catch: console.error, nothing is thrown further
OnCaptureRejected(c) ==
    /\ logged' = logged \cup {c}
    /\ result' = [result EXCEPT ![c] = "rejected"]
    /\ SetPc(c, "done")
    /\ UNCHANGED <<data, loc, fault, options, notifier, unhandled>>

\* CaptureController.captureRequest(req, res). Reading req.body.method of a
\* req without a body throws a TypeError into the controller's catch, which
\* answers through res; without a res that throws again and the promise the
\* caller awaits rejects.
CaptureController_captureRequest(c, req, res) ==
    IF "body" \in DOMAIN req
    THEN captureRequest(c, requestDataOf(req))
    ELSE IF res # Undefined
    THEN Returns(c, "INTERNAL_ERROR") /\ UNCHANGED fault
    ELSE OnCaptureRejected(c)

\* The controller called as a route handler, with the capture in req.body.
RouteInvokeOf(c, calls) ==
    /\ Free(c)
    /\ \E rc \in calls :
         LET req == [kind |-> "route", method |-> "POST", path |-> "/capture",
                     ip |-> "127.0.0.1", headers |-> <<(<<Header("content-type", "application/json"),
                                    Header("host", "api.local")>>)>>,
                     body |-> rc.body, io |-> rc.io]
         IN /\ call' = [call EXCEPT ![c] = req]
            /\ CaptureController_captureRequest(c, req, "res")
    /\ UNCHANGED <<now, tables, emitted>>

RouteInvoke(c) == RouteInvokeOf(c, RouteCalls)

\* app.js hands the middleware its options once, at startup
AppOptions ==
    [ignorePaths |-> bypassPaths, onlyErrors |-> FALSE, captureResponseBody |-> TRUE,
     maxBodySize |-> 100000,
     captureMethods |-> {"GET", "POST", "PUT", "DELETE", "PATCH"}]

ConfigureCalls == {AppOptions, [onlyErrors |-> TRUE]}

\* ModrMiddleware.configure(options): the given keys replace the old ones
configure(o) ==
    /\ options = DefaultOptions
    /\ \A c \in Slots : pc[c] = "idle"
    /\ options' = o @@ options
    /\ UNCHANGED <<pc, call, data, loc, fault, result, now, tables, emitted, logged,
                   unhandled, notifier>>

\* bodyStr.substring(0, 500) + '...': its number of characters
PreviewLength(body) ==
    (IF JSON_stringify(body).length < 500 THEN JSON_stringify(body).length ELSE 500) + 3

\* { _modr_truncated: true, _size: bytes, _preview: the first 500 characters
\* and three dots }
ModrMarker(body) ==
    "{\"_modr_truncated\":true,\"_size\":" \o ToString(JSON_stringify(body).byteLength)
    \o ",\"_preview\":" \o ToString(PreviewLength(body)) \o " characters of "
    \o body \o "}"

\* ModrMiddleware.prepareBody(body)
prepareBody(opts, body) ==
    IF body = Undefined \/ body = Null \/ body = "" THEN Null
    ELSE IF JSON_stringify(body).byteLength > opts.maxBodySize THEN ModrMarker(body)
    ELSE body

Incoming(method, url, upgrade, key) ==
    [method |-> method, url |-> url, upgrade |-> upgrade, secWebsocketKey |-> key,
     modrBypass |-> FALSE, body |-> Undefined]

TestUrls ==
    {"/health", "/Health?x", "/healthcheck", "/health/db", "/api/orders", "/api/socket.io"}

MonitoredRequests ==
    {Incoming("GET", u, Undefined, Undefined) : u \in TestUrls}
    \cup {Incoming("POST", "/api/users", Undefined, Undefined),
          Incoming("OPTIONS", "/api/orders", Undefined, Undefined),
          Incoming("GET", "/api/orders", "websocket", Undefined),
          Incoming("GET", "/api/orders", Undefined, "dGhlIHNhbXBsZQ=="),
          [Incoming("POST", "/api/users", Undefined, Undefined) EXCEPT !.body = WideBody]}

FinalStatusCodes == {200, 201, 500}

\* ---- the response object: res.json and res.send, wrapped or not
\* Bodies an application answers with: a JavaScript value with its type and
\* its JSON text (for a string, the string itself)
JsonObject == [type |-> "object", value |-> "{\"ok\":true}"]

\* !body
Falsy(body) ==
    \/ body.type = "null"
    \/ body.type = "number" /\ body.value = "0"
    \/ body.type = "string" /\ body.value = ""

\* JSON.stringify(body), a string
stringify(body) ==
    [type |-> "string",
     value |-> IF body.type = "string" THEN "\"" \o body.value \o "\"" ELSE body.value]

\* res as the middleware leaves it: whether json and send are the wrappers,
\* the closure's responseBody, what was written to the client, and the calls
\* of the wrappers and of the original implementations in order
FreshRes(wrapped) ==
    [wrapped |-> wrapped, responseBody |-> [type |-> "null", value |-> "null"], client |-> <<>>, calls |-> <<>>]

Called(res, by, fn, body) ==
    [res EXCEPT !.calls = Append(@, [by |-> by, fn |-> fn, arg |-> body, this |-> "res"])]

\* if (!responseBody) responseBody = body
sendKeeps(responseBody, body) == IF Falsy(responseBody) THEN body ELSE responseBody

RECURSIVE res_json(_, _), res_send(_, _)

\* Express's res.json: the JSON text goes to this.send
originalJson(res, body) == res_send(Called(res, "original", "json", body), stringify(body))

\* Express's res.send: an object goes to this.json, a string or null is
\* written to the client
originalSend(res, body) ==
    IF body.type = "object"
    THEN res_json(Called(res, "original", "send", body), body)
    ELSE [Called(res, "original", "send", body) EXCEPT
             !.client = Append(@, IF body.type = "null" THEN "" ELSE body.value)]

\* res.json = function(body) { responseBody = body; return originalJson.call(this, body); }
res_json(res, body) ==
    IF res.wrapped
    THEN originalJson([Called(res, "wrapper", "json", body) EXCEPT !.responseBody = body],
                      body)
    ELSE originalJson(res, body)

\* res.send = function(body) { if (!responseBody) { responseBody = body; }
\*                             return originalSend.call(this, body); }
res_send(res, body) ==
    IF res.wrapped
    THEN originalSend([Called(res, "wrapper", "send", body) EXCEPT
                          !.responseBody = sendKeeps(@, body)], body)
    ELSE originalSend(res, body)

\* The ways the application of the model answers, by status code
AnswersFor(statusCode) ==
    CASE statusCode = 200 -> {[fn |-> "json", body |-> JsonObject],
                              [fn |-> "send", body |-> JsonObject]}
      [] statusCode = 201 -> {[fn |-> "json", body |-> [type |-> "number", value |-> "0"]]}
      [] OTHER -> {[fn |-> "send", body |-> [type |-> "string", value |-> "done"]]}

Answered(res, answer) ==
    IF answer.fn = "json" THEN res_json(res, answer.body) ELSE res_send(res, answer.body)

\* A middleware that goes on after handing a request it does not capture on
captureFallsThrough(opts, req, res) ==
    IF ~shouldCapture(opts, req, res)
    THEN [capture |-> FALSE, next |-> <<"next()", "next()">>, finishHandlers |-> 1,
          res |-> FreshRes(TRUE)]
    ELSE [capture |-> TRUE, next |-> <<"next()">>, finishHandlers |-> 1,
          res |-> FreshRes(TRUE)]

\* The function capture() returns, run on one request up to its end: the
\* decision, the calls of next with their argument, the 'finish' handlers
\* registered on res, and res itself
captureMiddleware(opts, req, res) ==
    IF ~shouldCapture(opts, req, res)
    THEN [capture |-> FALSE, next |-> <<"next()">>, finishHandlers |-> 0,
          res |-> FreshRes(FALSE)]
    ELSE [capture |-> TRUE, next |-> <<"next()">>, finishHandlers |-> 1,
          res |-> FreshRes(TRUE)]

\* A middleware whose capture work runs before the response
AfterNextCapturesFirst(capture) == IF capture THEN "finish" ELSE "passed"

\* Where a request is once the middleware has returned: with the
\* application, its 'finish' handler waiting or not
AfterNext(capture) == IF capture THEN "handling" ELSE "passed"

\* A monitored request passes the bypass gate and enters capture()'s
\* middleware, which decides, registers the finish handler and calls next().
Arrive(c) ==
    /\ Free(c)
    /\ \E m \in MonitoredRequests :
         LET req == [m EXCEPT !.modrBypass = shouldBypass(m.url)]
             res == [statusCode |-> 200]
             ran == captureMiddleware(options, req, res)
         IN /\ call' = [call EXCEPT ![c] =
                           [kind |-> "monitored", req |-> req, statusCode |-> 200,
                            requestId |-> uuidv4(c), startTime |-> now,
                            capture |-> ran.capture, requestData |-> <<>>,
                            next |-> ran.next, finishHandlers |-> ran.finishHandlers,
                            res |-> ran.res, answer |-> <<>>, finished |-> FALSE]]
            /\ SetPc(c, AfterNext(ran.capture))
    /\ UNCHANGED <<data, loc, fault, result, now, tables, emitted, logged, options, notifier,
                   unhandled>>

\* The application answers the monitored request; 'finish' fires
Respond(c) ==
    /\ pc[c] \in {"handling", "passed"}
    /\ \E s \in FinalStatusCodes : \E answer \in AnswersFor(s) :
         call' = [call EXCEPT ![c].statusCode = s,
                              ![c].answer = <<answer>>,
                              ![c].res = Answered(@, answer),
                              ![c].finished = TRUE]
    /\ SetPc(c, IF call[c].finishHandlers > 0 THEN "finish" ELSE "done")
    /\ UNCHANGED <<data, loc, fault, result, now, tables, emitted, logged, options, notifier,
                   unhandled>>

\* res.on('finish', ...): requestData is handed to the controller as its req
FinishHandler(c) ==
    /\ pc[c] = "finish"
    /\ LET req == call[c].req
           requestData ==
               [uuid |-> call[c].requestId, method |-> req.method, path |-> req.url,
                controller |-> req.url, statusCode |-> <<call[c].statusCode>>,
                responseTime |-> <<(now - call[c].startTime) * 10>>,
                ipAddress |-> "127.0.0.1", headers |-> {},
                requestBody |-> prepareBody(options, req.body),
                responseBody |-> IF options.captureResponseBody
                                 THEN prepareBody(options,
                                          IF call[c].res.responseBody.type = "null"
                                          THEN Null ELSE call[c].res.responseBody.value)
                                 ELSE Null,
                userId |-> Null, error |-> Null]
       IN /\ call' = [call EXCEPT ![c].requestData = <<requestData>>]
          /\ CaptureController_captureRequest(c, requestData, Undefined)
    /\ UNCHANGED <<now, tables, emitted>>

Next ==
    \/ \E o \in ConfigureCalls : configure(o)
    \/ \E c \in Slots :
        \/ RouteInvoke(c)
        \/ Arrive(c)
        \/ Respond(c)
        \/ FinishHandler(c)
        \/ BeginTx(c)
        \/ getOrCreateMethod(c)
        \/ getOrCreateStatus(c)
        \/ createPayload(c)
        \/ createResponse(c)
        \/ createMainRequest(c)
        \/ processHeaders(c)
        \/ captureException(c)
        \/ commit(c)
        \/ emit(c)
        \/ emitThrows(c)
        \/ rollback(c)
        \/ DatabaseFailure(c)

Spec == Init /\ [][Next]_vars

\* ------------------------------------------------- the link statement alone
\* The statement processHeaders runs for a link, for any request and header
\* and inside any open transaction, with the command tag PostgreSQL answers.
LinkRequests == {uuidv4(1), UuidA}

LinkHeaders == {<<"accept", 1>>, <<"Accept", 0>>}

linkStatement(c, rid, hid) ==
    /\ ~\E r \in request_headers :
           r.request_id = rid /\ r.header_id = hid /\ ~r.committed /\ r.owner # c
    /\ request_headers' = InsertLink(request_headers, rid, hid, c)
    /\ result' = [result EXCEPT ![c] =
                     IF \E r \in request_headers : r.request_id = rid /\ r.header_id = hid
                     THEN "INSERT 0 0" ELSE "INSERT 0 1"]
    /\ UNCHANGED <<pc, call, data, loc, fault, now, methods, status, headers, payloads,
                   responses, requests, exceptions, users, emitted, logged, options, notifier,
                   unhandled>>

linkCommit(c) ==
    /\ \E r \in request_headers : r.owner = c /\ ~r.committed
    /\ request_headers' = TxCommit(request_headers, c)
    /\ UNCHANGED <<pc, call, data, loc, fault, result, now, methods, status, headers,
                   payloads, responses, requests, exceptions, users, emitted, logged,
                   options, notifier, unhandled>>

linkRollback(c) ==
    /\ \E r \in request_headers : r.owner = c /\ ~r.committed
    /\ request_headers' = TxRollback(request_headers, c)
    /\ UNCHANGED <<pc, call, data, loc, fault, result, now, methods, status, headers,
                   payloads, responses, requests, exceptions, users, emitted, logged,
                   options, notifier, unhandled>>

LinkNext ==
    \E c \in Slots :
        \/ \E rid \in LinkRequests, hid \in LinkHeaders : linkStatement(c, rid, hid)
        \/ linkCommit(c)
        \/ linkRollback(c)

SpecLinks == Init /\ [][LinkNext]_vars

\* ------------------------------------------------- the capture decision alone
EntryStatusCodes == {200, 500}

\* shouldCapture applied to any request, marker and status
decide(c) ==
    /\ Free(c)
    /\ \E m \in MonitoredRequests, b \in BOOLEAN, s \in EntryStatusCodes :
         LET req == [m EXCEPT !.modrBypass = b]
             res == [statusCode |-> s]
         IN call' = [call EXCEPT ![c] =
                        [kind |-> "decision", req |-> req, statusCode |-> s,
                         capture |-> shouldCapture(options, req, res)]]
    /\ SetPc(c, "done")
    /\ UNCHANGED <<data, loc, fault, result, now, tables, emitted, logged, options, notifier,
                   unhandled>>

DecideNext ==
    \/ \E o \in ConfigureCalls : configure(o)
    \/ \E c \in Slots : decide(c)

SpecDecision == Init /\ [][DecideNext]_vars

\* ------------------------------------------------- answers of the endpoints
\* obj.field of an object that may lack the field
Get(obj, field) == IF field \in DOMAIN obj THEN obj[field] ELSE Undefined

\* ErrorHandler.HTTP_CODES[type]; <<>> where the table has no such key
HTTP_CODES(type) ==
    CASE type = "VALIDATION_ERROR" -> <<400>>
      [] type = "NOT_FOUND" -> <<404>>
      [] type = "DATABASE_ERROR" -> <<500>>
      [] type = "INTERNAL_ERROR" -> <<500>>
      [] type = "TIMEOUT_ERROR" -> <<408>>
      [] type = "UNAUTHORIZED_ERROR" -> <<401>>
      [] OTHER -> <<>>

\* ErrorHandler.createError; no details is <<>>
createError(type, message, details) ==
    [type |-> type, message |-> message, details |-> details]

handleValidationError(errors) ==
    createError("VALIDATION_ERROR", "Request validation failed", errors)

handleNotFoundError(resource, identifier) ==
    createError("NOT_FOUND", resource \o " with identifier '" \o identifier \o "' not found",
                <<>>)

\* ErrorHandler.handleDatabaseError by the name of the error thrown
databaseError(name) ==
    IF name = "SequelizeValidationError"
    THEN createError("VALIDATION_ERROR", "Database validation failed", <<>>)
    ELSE IF name = "SequelizeUniqueConstraintError"
    THEN createError("VALIDATION_ERROR", "Duplicate entry found", <<>>)
    ELSE IF name = "SequelizeTimeoutError"
    THEN createError("TIMEOUT_ERROR", "Database operation timed out", <<>>)
    ELSE createError("DATABASE_ERROR", "Database operation failed", <<>>)

\* ResponseSanitizer.error(error, httpCode)
ResponseSanitizer_error(error, httpCode) ==
    [success |-> FALSE,
     error |-> OrStr(Get(error, "type"), "INTERNAL_ERROR"),
     message |-> Get(error, "message"),
     details |-> IF "details" \in DOMAIN error THEN error.details ELSE <<>>,
     httpCode |-> OrNum(httpCode, OrNum(HTTP_CODES(Get(error, "type")), <<500>>))]

\* ResponseSanitizer.handleControllerResponse(res, result, successMessage):
\* what res is answered with. res.json on a fresh res answers 200.
handleControllerResponse(returned, successMessage) ==
    IF returned.success = FALSE \/ "error" \in DOMAIN returned
    THEN [status |-> ResponseSanitizer_error(returned, <<>>).httpCode,
          body |-> ResponseSanitizer_error(returned, <<>>)]
    ELSE [status |-> <<200>>,
          body |-> [success |-> TRUE, data |-> returned.data, message |-> successMessage]]

\* A service call of a monitoring controller returns and the controller
\* answers: data[c] keeps what was returned and what was answered.
ServiceReturns(c, returned) ==
    /\ result' = [result EXCEPT ![c] =
                     IF returned.success THEN "success" ELSE returned.error.type]
    /\ data' = [data EXCEPT ![c] =
                   [returned |-> returned,
                    answer |-> handleControllerResponse(returned, "completed successfully")]]
    /\ SetPc(c, "done")

\* The controller answers by itself, with an error it built
ControllerAnswers(c, error) ==
    /\ result' = [result EXCEPT ![c] = error.type]
    /\ data' = [data EXCEPT ![c] =
                   [returned |-> [success |-> FALSE, error |-> error],
                    answer |-> [status |-> ResponseSanitizer_error(error, <<>>).httpCode,
                                body |-> ResponseSanitizer_error(error, <<>>)]]]
    /\ SetPc(c, "done")

\* ------------------------------------------------------ cleanup beside capture
\* 24 * 60 * 60 * 1000
Day == 86400000

\* ValidationUtils.validateCleanupDays: !days gives the default
validateCleanupDays(days) ==
    IF days = <<>> \/ days = <<0>> THEN [isValid |-> TRUE, days |-> 7]
    ELSE [isValid |-> days[1] >= 1 /\ days[1] <= 365, days |-> days[1]]

\* A cutoff that lies ahead of the clock
cutoffAhead(t, validDays) == t + validDays * Day

\* new Date(Date.now() - validDays * 24 * 60 * 60 * 1000)
cutoffDate(t, validDays) == t - validDays * Day

\* Requests captured long ago, with the rows that hang on them
OldRequest(id, code, method, happened) ==
    SeedRow([request_id |-> id, status_id |-> <<<<code>>, 0>>, method_id |-> <<method, 0>>,
             payload_id |-> NoId, response_id |-> NoId, path |-> "/api/orders",
             controller |-> "/api/orders", happened |-> happened, duration |-> <<12>>,
             made_by |-> RegisteredUserId])

OldRequests ==
    {OldRequest(UuidA, 404, "GET", 0 - 8 * Day),
     OldRequest("old-2", 200, "POST", 0 - 8 * Day),
     OldRequest("old-3", 404, "GET", 0 - Day)}

InitCleanup ==
    /\ pc = [c \in Slots |-> "idle"]
    /\ call = [c \in Slots |-> NoCall]
    /\ data = [c \in Slots |-> NoData]
    /\ loc = [c \in Slots |-> NoLoc]
    /\ fault = [c \in Slots |-> NoFault]
    /\ result = [c \in Slots |-> "none"]
    /\ now = 0
    /\ methods = {SeedRow([name |-> m]) : m \in SeedMethods}
    /\ status = {SeedRow([code |-> <<k>>]) : k \in SeedStatusCodes}
    /\ headers = {SeedRow([name |-> h]) : h \in SeedHeaders}
    /\ payloads = {}
    /\ responses = {}
    /\ requests = OldRequests
    /\ request_headers =
          {SeedRow([request_id |-> UuidA, header_id |-> <<"Accept", 0>>, n |-> 0])}
    /\ exceptions =
          {SeedRow([request_id |-> UuidA, message |-> "not found", type |-> "system"])}
    /\ users = {SeedSystemUserId, RegisteredUserId}
    /\ emitted = <<>>
    /\ logged = {}
    /\ options = DefaultOptions
    /\ unhandled = {}
    /\ InitNotifier

CleanupCalls ==
    {[op |-> "cleanupOldRequests", days |-> d, statusCode |-> <<>>, method |-> Undefined] :
        d \in {<<>>, <<1>>, <<366>>}}
    \cup
    {[op |-> "cleanupByStatus", days |-> d, statusCode |-> k, method |-> Undefined] :
        d \in {<<7>>, <<1>>}, k \in {<<404>>, <<99>>}}
    \cup
    {[op |-> "cleanupByMethod", days |-> <<7>>, statusCode |-> <<>>, method |-> m] :
        m \in {"get", "TRACE"}}

\* The three cleanups up to their first await: validation and the cutoff
cleanupInvoke(c) ==
    /\ Free(c)
    /\ \E k \in CleanupCalls :
         LET daysValidation == validateCleanupDays(k.days)
             statusValidation == validateStatusCode(k.statusCode)
             methodValidation == validateHttpMethod(k.method)
             cutoff == cutoffDate(now, daysValidation.days)
         IN /\ call' = [call EXCEPT ![c] = [kind |-> "cleanup"] @@ k]
            /\ IF \/ ~daysValidation.isValid
                  \/ k.op = "cleanupByStatus" /\ ~statusValidation.isValid
                  \/ k.op = "cleanupByMethod" /\ ~methodValidation.isValid
                  \/ k.op = "cleanupOldRequests" /\ cutoff > now
               THEN /\ ServiceReturns(c, [success |-> FALSE,
                                            error |-> handleValidationError(
                                                <<"invalid parameter">>)])
                    /\ UNCHANGED loc
               ELSE /\ loc' = [loc EXCEPT ![c] =
                                  [cutoffDate |-> cutoff, computedAt |-> now,
                                   validDays |-> daysValidation.days,
                                   validStatusCode |-> statusValidation.statusCode,
                                   validMethod |-> methodValidation.method]]
                    /\ SetPc(c, "cleanup_count")
                    /\ UNCHANGED <<data, result>>
    /\ UNCHANGED <<fault, now, tables, emitted, logged, options, notifier, unhandled>>

\* The rows a statement of the cleanup reads: committed, older than the
\* cutoff, and joined to the Status or Method the include names
Matching(c) ==
    {r \in Committed(requests) :
        /\ r.happened < loc[c].cutoffDate
        /\ call[c].op = "cleanupByStatus" => r.status_id[1] = loc[c].validStatusCode
        /\ call[c].op = "cleanupByMethod" => r.method_id[1] = loc[c].validMethod}

\* Model.destroy builds DELETE FROM requests WHERE happened < cutoff from
\* options.where alone; an include is not part of a DELETE
Destroyed(c) == {r \in Committed(requests) : r.happened < loc[c].cutoffDate}

\* await models.Request.count(...)
cleanupCount(c) ==
    /\ pc[c] = "cleanup_count"
    /\ IF Matching(c) = {}
       THEN ServiceReturns(c, [success |-> TRUE,
                                data |-> [deleted_count |-> 0,
                                          cutoff_date |-> loc[c].cutoffDate]])
       ELSE /\ SetPc(c, "cleanup_destroy")
            /\ UNCHANGED <<data, result>>
    /\ UNCHANGED <<call, loc, fault, now, tables, emitted, logged, options, notifier, unhandled>>

\* await models.Request.destroy(...); request_headers and exceptions go with
\* their Request (ON DELETE CASCADE)
cleanupDestroy(c) ==
    /\ pc[c] = "cleanup_destroy"
    /\ LET gone == {r.request_id : r \in Destroyed(c)}
       IN /\ requests' = requests \ Destroyed(c)
          /\ request_headers' = {r \in request_headers : r.request_id \notin gone}
          /\ exceptions' = {r \in exceptions : r.request_id \notin gone}
    /\ ServiceReturns(c, [success |-> TRUE,
                           data |-> [deleted_count |-> Cardinality(Destroyed(c)),
                                     cutoff_date |-> loc[c].cutoffDate]])
    /\ UNCHANGED <<call, loc, fault, now, methods, status, headers, payloads, responses,
                   users, emitted, logged, options, notifier, unhandled>>

\* The catch of a cleanup: the statement it awaited was failed by the store
cleanupFails(c) ==
    /\ pc[c] \in {"cleanup_count", "cleanup_destroy"}
    /\ fault' = [fault EXCEPT ![c] = [name |-> "connection", at |-> pc[c]]]
    /\ logged' = logged \cup {c}
    /\ ServiceReturns(c, [success |-> FALSE, error |-> databaseError("SequelizeConnectionError")])
    /\ UNCHANGED <<call, loc, now, tables, emitted, options, notifier, unhandled>>

\* The columns of the tables deleteRequest names (raw_create_tables.sql and
\* the models)
Columns(table) ==
    CASE table = "payloads" -> {"payload_id", "payload_json", "sent_from", "created_at"}
      [] table = "responses" -> {"response_id", "content", "size", "sent_at"}
      [] table = "request_headers" -> {"request_id", "header_id"}
      [] table = "exceptions" -> {"exception_id", "request_id", "message", "type",
                                  "stack_trace", "occurred_at"}
      [] table = "queries" -> {"query_id", "request_id", "sql", "duration", "executed_at"}

\* The tables whose rows deleteRequest counts and destroys WHERE request_id = id

\* A statement naming a column its table does not have is refused by the store
UndefinedColumn ==
    \E t \in {"payloads", "responses", "request_headers", "exceptions", "queries"} :
        "request_id" \notin Columns(t)

DeleteIds == {UuidA, uuidv4(1), "not-a-uuid", " "}

NoUndo == [requests |-> {}, request_headers |-> {}, exceptions |-> {}]

\* RequestsController.deleteRequest up to the service's first await
deleteInvoke(c) ==
    /\ Free(c)
    /\ \E id \in DeleteIds :
         /\ call' = [call EXCEPT ![c] = [kind |-> "delete", id |-> id]]
         /\ IF id = "" \/ id = " "
            THEN /\ ControllerAnswers(c, createError("VALIDATION_ERROR",
                        "Request ID is required", <<"ID parameter cannot be empty">>))
                 /\ UNCHANGED loc
            ELSE /\ loc' = [loc EXCEPT ![c] = [undo |-> NoUndo]]
                 /\ SetPc(c, "delete_begin")
                 /\ UNCHANGED <<data, result>>
    /\ UNCHANGED <<fault, now, tables, emitted, logged, options, notifier, unhandled>>

\* RequestService.deleteRequest between two awaits. Rows a transaction has
\* deleted are kept in its undo list until it ends.
deleteRequest(c) ==
    /\ pc[c] \in {"delete_begin", "delete_find", "delete_counts", "delete_related",
                  "delete_main", "delete_commit", "delete_rollback"}
    /\ LET id == call[c].id
           mine(table) == {r \in Committed(table) : r.request_id = id}
       IN CASE pc[c] = "delete_begin" ->
                 /\ IF ~isValidUUID(id)
                    THEN ServiceReturns(c, [success |-> FALSE,
                             error |-> handleValidationError(<<"Invalid UUID format">>)])
                    ELSE SetPc(c, "delete_find") /\ UNCHANGED <<data, result>>
                 /\ UNCHANGED <<loc, fault, tables>>
            [] pc[c] = "delete_find" ->
                 /\ IF mine(requests) = {}
                    THEN ServiceReturns(c, [success |-> FALSE,
                             error |-> handleNotFoundError("Request", id)])
                    ELSE SetPc(c, "delete_counts") /\ UNCHANGED <<data, result>>
                 /\ UNCHANGED <<loc, fault, tables>>
            [] pc[c] = "delete_counts" ->
                 /\ IF UndefinedColumn
                    THEN /\ fault' = [fault EXCEPT ![c] =
                                        [name |-> "undefined_column", at |-> pc[c]]]
                         /\ SetPc(c, "delete_rollback")
                    ELSE SetPc(c, "delete_related") /\ UNCHANGED fault
                 /\ UNCHANGED <<loc, data, result, tables>>
            [] pc[c] = "delete_related" ->
                 /\ IF UndefinedColumn
                    THEN /\ fault' = [fault EXCEPT ![c] =
                                        [name |-> "undefined_column", at |-> pc[c]]]
                         /\ SetPc(c, "delete_rollback")
                         /\ UNCHANGED <<loc, tables>>
                    ELSE /\ request_headers' = request_headers \ mine(request_headers)
                         /\ exceptions' = exceptions \ mine(exceptions)
                         /\ loc' = [loc EXCEPT ![c].undo.request_headers = mine(request_headers),
                                               ![c].undo.exceptions = mine(exceptions)]
                         /\ SetPc(c, "delete_main")
                         /\ UNCHANGED <<fault, methods, status, headers, payloads, responses,
                                        requests, users>>
                 /\ UNCHANGED <<data, result>>
            [] pc[c] = "delete_main" ->
                 /\ requests' = requests \ mine(requests)
                 /\ loc' = [loc EXCEPT ![c].undo.requests = mine(requests)]
                 /\ SetPc(c, "delete_commit")
                 /\ UNCHANGED <<data, result, fault, methods, status, headers, payloads,
                                responses, request_headers, exceptions, users>>
            [] pc[c] = "delete_commit" ->
                 /\ ServiceReturns(c, [success |-> TRUE,
                        data |-> [request_id |-> id,
                                  headers |-> Cardinality(loc[c].undo.request_headers),
                                  exceptions |-> Cardinality(loc[c].undo.exceptions)]])
                 /\ loc' = [loc EXCEPT ![c].undo = NoUndo]
                 /\ UNCHANGED <<fault, tables>>
            [] pc[c] = "delete_rollback" ->
                 /\ requests' = requests \cup loc[c].undo.requests
                 /\ request_headers' = request_headers \cup loc[c].undo.request_headers
                 /\ exceptions' = exceptions \cup loc[c].undo.exceptions
                 /\ loc' = [loc EXCEPT ![c].undo = NoUndo]
                 /\ ServiceReturns(c, [success |-> FALSE,
                        error |-> databaseError("SequelizeDatabaseError")])
                 /\ UNCHANGED <<fault, methods, status, headers, payloads, responses, users>>
    /\ logged' = IF pc[c] = "delete_rollback" THEN logged \cup {c} ELSE logged
    /\ UNCHANGED <<call, now, emitted, options, notifier, unhandled>>

\* The store fails the statement deleteRequest awaits. sequelize.transaction()
\* is awaited outside the try: its rejection reaches the controller's catch.
deleteFails(c) ==
    /\ pc[c] \in {"delete_begin", "delete_find", "delete_counts", "delete_related",
                  "delete_main", "delete_commit"}
    /\ fault' = [fault EXCEPT ![c] = [name |-> "connection", at |-> pc[c]]]
    /\ IF pc[c] = "delete_begin"
       THEN ControllerAnswers(c, createError("INTERNAL_ERROR",
                "An unexpected error occurred while deleting the request", <<>>))
       ELSE SetPc(c, "delete_rollback") /\ UNCHANGED <<data, result>>
    /\ logged' = logged \cup {c}
    /\ UNCHANGED <<call, loc, now, tables, emitted, options, notifier, unhandled>>

\* The captures posted while cleanups run
CapturesBesideCleanup ==
    {Call(<<404>>, <<NoHeaders>>, RegisteredUserId, Undefined, "attached"),
     Call(<<418>>, <<AcceptOnly>>, RegisteredUserId, Undefined, "absent")}

captureBesideCleanup(c) == RouteInvokeOf(c, CapturesBesideCleanup)

CleanupNext ==
    \E c \in Slots :
        \/ cleanupInvoke(c)
        \/ cleanupCount(c)
        \/ cleanupDestroy(c)
        \/ cleanupFails(c)
        \/ deleteInvoke(c)
        \/ deleteRequest(c)
        \/ deleteFails(c)
        \/ captureBesideCleanup(c)
        \/ BeginTx(c)
        \/ getOrCreateMethod(c)
        \/ getOrCreateStatus(c)
        \/ createPayload(c)
        \/ createResponse(c)
        \/ createMainRequest(c)
        \/ processHeaders(c)
        \/ captureException(c)
        \/ commit(c)
        \/ emit(c)
        \/ emitThrows(c)
        \/ rollback(c)
        \/ DatabaseFailure(c)

SpecCleanup == InitCleanup /\ [][CleanupNext]_vars

\* ------------------------------------------------------- the socket notifier
\* this.<name>(socket): class SocketManager defines constructor, initialize
\* and handleConnection; calling a property the object does not have throws
callMethod(name) ==
    IF name \in {"constructor", "initialize", "handleConnection"}
    THEN "returned" ELSE "TypeError"

\* The 'connection' listener initialize() registers: handleConnection(socket)
\* stores the socket and registers its 'disconnect' listener, then the
\* listener calls this.setupEventListeners(socket)
connection(id) ==
    /\ sockets[id] = "new"
    /\ sockets' = [sockets EXCEPT ![id] = "connected"]
    /\ connections' = [k \in DOMAIN connections \cup {id} |->
                         IF k = id THEN socketHandle(id) ELSE connections[k]]
    /\ raised' = IF callMethod("setupEventListeners") = "TypeError"
                 THEN raised \cup {id} ELSE raised
    /\ UNCHANGED <<pc, call, data, loc, fault, result, now, tables, emitted, logged,
                   options, unhandled>>

\* The 'disconnect' listener of a stored socket
disconnect(id) ==
    /\ sockets[id] = "connected"
    /\ sockets' = [sockets EXCEPT ![id] = "disconnected"]
    /\ connections' = [k \in DOMAIN connections \ {id} |-> connections[k]]
    /\ UNCHANGED <<pc, call, data, loc, fault, result, now, tables, emitted, logged,
                   options, unhandled, raised>>

SocketsNext ==
    \E id \in SocketIds :
        \/ connection(id)
        \/ disconnect(id)

SpecSockets == Init /\ [][SocketsNext]_vars

\* ------------------------------------------------------------------ claims
TxFaults == {"unique_violation", "not_null", "foreign_key", "connection"}

RowsWrittenBy(c) ==
    Cardinality(WrittenBy(methods, c)) + Cardinality(WrittenBy(status, c))
    + Cardinality(WrittenBy(headers, c)) + Cardinality(WrittenBy(payloads, c))
    + Cardinality(WrittenBy(responses, c)) + Cardinality(WrittenBy(requests, c))
    + Cardinality(WrittenBy(request_headers, c)) + Cardinality(WrittenBy(exceptions, c))

CommittedRowsWrittenBy(c) ==
    Cardinality(WrittenBy(Committed(methods), c))
    + Cardinality(WrittenBy(Committed(status), c))
    + Cardinality(WrittenBy(Committed(headers), c))
    + Cardinality(WrittenBy(Committed(payloads), c))
    + Cardinality(WrittenBy(Committed(responses), c))
    + Cardinality(WrittenBy(Committed(requests), c))
    + Cardinality(WrittenBy(Committed(request_headers), c))
    + Cardinality(WrittenBy(Committed(exceptions), c))

\* C1: a capture whose transaction failed at any step after it opened leaves
\* no row of its own: none of its rows is ever committed, and once the
\* capture has returned none of them exists in any table.
C1_Atomicity ==
    \A c \in Slots :
        fault[c].name \in TxFaults =>
            /\ CommittedRowsWrittenBy(c) = 0
            /\ pc[c] = "done" => RowsWrittenBy(c) = 0

\* A capture with an unseen status code, bodies and a header failed at commit,
\* after all of its rows were staged, and has returned.
C1_Witness ==
    \E c \in Slots :
        /\ pc[c] = "done"
        /\ fault[c] = [name |-> "connection", at |-> "commit"]
        /\ call[c].kind = "route"
        /\ call[c].body.statusCode = <<418>>
        /\ call[c].body.headers = <<MixedHeaders>>
        /\ RowsWrittenBy(c) = 0

\* C2: in every reachable state there is exactly one Method row named GET and
\* exactly one Status row with code 200, and no two Method rows share a name
\* and no two Status rows share a code.
C2_ReferenceRowsUnique ==
    /\ Cardinality({r \in methods : r.name = "GET"}) = 1
    /\ Cardinality({r \in status : r.code = <<200>>}) = 1
    /\ \A r1, r2 \in methods : r1.name = r2.name => r1 = r2
    /\ \A r1, r2 \in status : r1.code = r2.code => r1 = r2

\* Two captures with method GET and status 200 both committed.
C2_Witness ==
    \A c \in Slots :
        /\ result[c] = "success"
        /\ call[c].kind = "route"
        /\ call[c].body.method = "GET"
        /\ call[c].body.statusCode = <<200>>
        /\ \E r \in Committed(requests) : r.owner = c

\* C3: no capture fails on the uniqueness violation of a lookup-or-create:
\* the losing create of a race is recovered, never thrown to the caller.
C3_RaceRecovered ==
    \A c \in Slots :
        ~(/\ fault[c].name = "unique_violation"
          /\ fault[c].at \in {"method_create", "status_create", "header_create"})

Monitored(c) == call[c].kind = "monitored"

PersistedFor(c) ==
    {r \in Committed(requests) :
        /\ r.request_id = call[c].requestId
        /\ r.method_id[1] = call[c].req.method
        /\ r.status_id[1] = <<call[c].statusCode>>}

\* C5: every monitored request the capture decision accepted has, once its
\* response is complete and the capture has run, exactly one committed
\* Request row with its method and final status code.
C5_AcceptedIsPersisted ==
    \A c \in Slots :
        (Monitored(c) /\ call[c].capture /\ pc[c] = "done") =>
            Cardinality(PersistedFor(c)) = 1

OrdersRequest(c) ==
    /\ Monitored(c)
    /\ call[c].req = [Incoming("GET", "/api/orders", Undefined, Undefined)
                        EXCEPT !.modrBypass = FALSE]

\* C6: with onlyErrors on, a completed GET /api/orders is persisted if and
\* only if its final status code is 400 or more.
C6_OnlyErrorsUsesFinalStatus ==
    \A c \in Slots :
        (OrdersRequest(c) /\ options.onlyErrors /\ pc[c] = "done") =>
            (PersistedFor(c) # {} <=> call[c].statusCode >= 400)

EventsOn(channel, id) ==
    {i \in DOMAIN emitted : emitted[i].channel = channel /\ emitted[i].payload.id = id}

\* C7: a request carrying the bypass marker is never accepted by the capture
\* decision, never gets a finish handler, never reaches the capture pipeline,
\* has no Request row and no event.
C7_BypassedNeverCaptured ==
    \A c \in Slots :
        (Monitored(c) /\ call[c].req.modrBypass) =>
            /\ ~call[c].capture
            /\ pc[c] \in {"passed", "done"}
            /\ result[c] = "none"
            /\ ~\E r \in requests : r.request_id = call[c].requestId
            /\ ~\E i \in DOMAIN emitted : emitted[i].payload.id = call[c].requestId

\* GET /health, marked by the gate, answered 500, with no ignore-path set in
\* the middleware's options.
C7_Witness ==
    \E c \in Slots :
        /\ Monitored(c)
        /\ call[c].req.modrBypass
        /\ call[c].req.url = "/health"
        /\ options.ignorePaths = <<>>
        /\ call[c].statusCode = 500
        /\ pc[c] = "done"

Decided(c) == call[c].kind = "decision"

\* The path equals the entry, or continues it with "/" or "?", in lower case
PathIgnored(url, paths) ==
    LET q == toLowerCase(Chars(url)) IN
    \E i \in 1..Len(paths) :
        LET e == toLowerCase(Chars(paths[i])) IN
        \/ q = e
        \/ /\ Len(q) > Len(e)
           /\ \A k \in 1..Len(e) : q[k] = e[k]
           /\ q[Len(e) + 1] \in {"/", "?"}

FiveRules(opts, req, statusCode) ==
    \/ req.modrBypass
    \/ req.method \notin opts.captureMethods
    \/ PathIgnored(req.url, opts.ignorePaths)
    \/ req.upgrade = "websocket" \/ req.secWebsocketKey # Undefined
    \/ opts.onlyErrors /\ statusCode < 400

MentionsSocketIo(url) ==
    \E i \in 1..Len(Chars(url)) :
        /\ i + 8 <= Len(Chars(url))
        /\ SubSeq(Chars(url), i, i + 8) = <<"s", "o", "c", "k", "e", "t", ".", "i", "o">>

\* C8, as stated: shouldCapture returns false if and only if one of the five
\* rules applies (bypass marker, method, ignore-path, websocket headers,
\* only-errors with a status below 400).
C8_ExactlyFiveRules ==
    \A c \in Slots :
        Decided(c) => (call[c].capture <=> ~FiveRules(options, call[c].req, call[c].statusCode))

\* C8, amended: shouldCapture returns false if and only if one of the five
\* rules applies or the request's URL contains "socket.io".
C8_FiveRulesAndSocketIo ==
    \A c \in Slots :
        Decided(c) =>
            (call[c].capture <=>
                ~(\/ FiveRules(options, call[c].req, call[c].statusCode)
                  \/ MentionsSocketIo(call[c].req.url)))

\* /healthcheck is captured while /health is an ignore-path
C8_Witness ==
    \E c \in Slots :
        /\ Decided(c)
        /\ options.ignorePaths = bypassPaths
        /\ call[c].req.url = "/healthcheck"
        /\ call[c].capture

\* C9: no failure of a capture escapes into the host process, and every
\* capture that failed has been written to the console.
C9_FailuresContained ==
    /\ unhandled = {}
    /\ \A c \in Slots : result[c] \notin {"none", "success"} => c \in logged

\* A monitored request's capture was rejected and logged, the client got its
\* 500, and the other capture in flight committed.
C9_Witness ==
    \E c, d \in Slots :
        /\ Monitored(c)
        /\ result[c] = "rejected"
        /\ c \in logged
        /\ call[c].statusCode = 500
        /\ result[d] = "success"
        /\ \E r \in Committed(requests) : r.owner = d

PayloadOf(r) ==
    [id |-> r.request_id, method |-> r.method_id[1], path |-> r.path,
     statusCode |-> r.status_id[1][1], duration |-> r.duration[1],
     timestamp |-> r.happened]

EventsAsClaimed(r) ==
    /\ Cardinality(EventsOn("modr:new_request", r.request_id)) = 1
    /\ Cardinality(EventsOn("modr:error_request", r.request_id))
          = IF r.status_id[1][1] >= 400 THEN 1 ELSE 0
    /\ \A i \in DOMAIN emitted :
          emitted[i].payload.id = r.request_id => emitted[i].payload = PayloadOf(r)

C11_EventsFollowCommits ==
    \A i \in DOMAIN emitted :
        \E c \in Slots :
            /\ fault[c].name \notin TxFaults
            /\ result[c] # "VALIDATION_ERROR"
            /\ \E r \in Committed(requests) :
                  r.owner = c /\ r.request_id = emitted[i].payload.id

\* One capture committed and its event is out; the other rolled back or
\* failed validation, and the only events are the first one's.
C11_Witness ==
    \E c, d \in Slots :
        /\ result[c] = "success"
        /\ emitted # <<>>
        /\ pc[d] = "done"
        /\ fault[d].name \in TxFaults \/ result[d] = "VALIDATION_ERROR"
        /\ \A i \in DOMAIN emitted :
              \E r \in Committed(requests) :
                  r.owner = c /\ r.request_id = emitted[i].payload.id

\* C12: a capture that committed returns success, whether or not its event
\* could be emitted.
C12_CommittedReturnsSuccess ==
    \A c \in Slots :
        (pc[c] = "done" /\ \E r \in Committed(requests) : r.owner = c) =>
            result[c] = "success"

ExceptionsFor(c) ==
    {e \in Committed(exceptions) :
        \E r \in Committed(requests) : r.owner = c /\ r.request_id = e.request_id}

\* C13: a committed capture whose data carried an error with a message has
\* exactly one Exception row linked to its Request, of the supplied type, or
\* 'system' for a status code of 500 or more and 'business' below.
C13_ExceptionLinked ==
    \A c \in Slots :
        (/\ result[c] = "success"
         /\ call[c].kind = "route"
         /\ call[c].body.error # <<>>
         /\ call[c].body.error[1].message # Undefined) =>
            /\ Cardinality(ExceptionsFor(c)) = 1
            /\ \A e \in ExceptionsFor(c) :
                  e.type = IF call[c].body.error[1].type # Undefined
                           THEN call[c].body.error[1].type
                           ELSE IF call[c].body.statusCode[1] >= 500 THEN "system"
                           ELSE "business"

\* The checks of a capture's input, as the contract lists them
InvalidCapture(d) ==
    \/ d.method \notin {"GET", "POST", "PUT", "DELETE", "PATCH", "OPTIONS", "HEAD", "get"}
    \/ d.path = Undefined
    \/ d.statusCode # <<>> /\ (d.statusCode[1] < 100 \/ d.statusCode[1] > 599)
    \/ d.uuid \notin V4Uuids \cup {Undefined}
    \/ d.user_id \notin V4Uuids \cup {Undefined}
    \/ d.responseTime # <<>> /\ d.responseTime[1] < 0
    \/ d.ipAddress \notin {Undefined, "127.0.0.1", "::1", "203.0.113.7"}
    \/ d.requestBody = NotJson
    \/ d.responseBody = NotJson

\* C14: a capture whose input fails a check has returned a VALIDATION error
\* straight from the call, without a transaction: it is never at a step of
\* executeCapture, it threw nothing, it wrote no row and no event names a
\* row of its own.
C14_ValidationPrecedesWrites ==
    \A c \in Slots :
        (call[c].kind = "route" /\ InvalidCapture(requestDataOf(call[c]))) =>
            /\ pc[c] = "done"
            /\ result[c] = "VALIDATION_ERROR"
            /\ fault[c] = NoFault
            /\ RowsWrittenBy(c) = 0
            /\ \A i \in DOMAIN emitted :
                  \E r \in Committed(requests) :
                      r.owner # c /\ r.request_id = emitted[i].payload.id

\* A capture with status code 99 was rejected while the store holds only the
\* seeded rows and nothing was emitted.
C14_Witness ==
    \E c \in Slots :
        /\ call[c].kind = "route"
        /\ call[c].body.statusCode = <<99>>
        /\ result[c] = "VALIDATION_ERROR"
        /\ requests = {} /\ payloads = {} /\ responses = {}
        /\ emitted = <<>>

\* C15: every Request row references exactly one Method row and exactly one
\* Status row, both existing (and committed once the Request is); its
\* payload and response references are null or name an existing row, and its
\* made_by names an existing user.
C15_RequestReferences ==
    \A r \in requests :
        /\ Cardinality({m \in methods : MethodId(m) = r.method_id}) = 1
        /\ Cardinality({st \in status : StatusId(st) = r.status_id}) = 1
        /\ r.committed =>
              /\ \E m \in Committed(methods) : MethodId(m) = r.method_id
              /\ \E st \in Committed(status) : StatusId(st) = r.status_id
        /\ r.payload_id = NoId \/ \E p \in payloads : p.payload_id = r.payload_id
        /\ r.response_id = NoId \/ \E p \in responses : p.response_id = r.response_id
        /\ r.made_by \in users

\* Two committed Requests: one with a payload, a response and a status row
\* created by its own capture, one with neither body.
C15_Witness ==
    \E r1, r2 \in Committed(requests) :
        /\ r1.payload_id # NoId /\ r1.response_id # NoId
        /\ r1.status_id = <<<<418>>, r1.owner>>
        /\ r2.payload_id = NoId /\ r2.response_id = NoId

\* C16: a capture that carries no user id and meets no database outage
\* commits, with made_by equal to the default system id, which is the id of
\* an existing user.
C16_DefaultUserIsSeeded ==
    \A c \in Slots :
        (/\ pc[c] = "done"
         /\ call[c].kind = "route"
         /\ call[c].body.user_id = Undefined
         /\ ~InvalidCapture(requestDataOf(call[c]))
         /\ fault[c].name \notin {"connection", "emit"}) =>
            \E r \in Committed(requests) :
                r.owner = c /\ r.made_by = DefaultMadeBy /\ r.made_by \in users

\* A posted body whose JSON text is longer than 100000 bytes
Oversized(body) == body \notin {Undefined, Null} /\ JSON_stringify(body).byteLength > 100000

\* The stored value is not the posted document but the marker carrying its
\* byte length and a preview of at most 500 characters
StoredAsClaimed(stored, body) ==
    /\ stored # body
    /\ stored = ModrMarker(body)
    /\ PreviewLength(body) <= 500

\* C17: a posted request or response body whose JSON text is longer than
\* 100000 bytes is never stored raw: the Payload or Response row of the
\* capture holds a truncation marker with the original byte length and a
\* preview of at most 500 characters.
C17_OversizedBodyTruncated ==
    \A c \in Slots : call[c].kind = "route" =>
        /\ \A p \in payloads :
              (p.owner = c /\ Oversized(call[c].body.requestBody)) =>
                  StoredAsClaimed(p.payload_json, call[c].body.requestBody)
        /\ \A r \in responses :
              (r.owner = c /\ Oversized(call[c].body.responseBody)) =>
                  StoredAsClaimed(r.content, call[c].body.responseBody)

\* C18: the size of every stored Response row is the number of UTF-8 bytes of
\* the JSON text of its stored content divided by 1024, whatever size the
\* capture input named; a content of exactly 2048 bytes has size 2.0.
C18_SizeIsKilobytes ==
    \A r \in responses :
        /\ r.size.parts1024 \in 0..1023
        /\ r.size.whole * 1024 + r.size.parts1024 = JSON_stringify(r.content).byteLength
        /\ r.content = Kb2Body => r.size = [whole |-> 2, parts1024 |-> 0]

\* A capture that named the size 7 committed a Response row holding the
\* 2048-byte document with size 2.0, and another committed a row holding a
\* smaller content.
C18_Witness ==
    /\ \E c \in Slots, r \in Committed(responses) :
          /\ call[c].kind = "route" /\ call[c].body.size = <<7>>
          /\ r.owner = c /\ r.content = Kb2Body
          /\ r.size = [whole |-> 2, parts1024 |-> 0]
    /\ \E r \in Committed(responses) : r.content # Kb2Body /\ r.size.parts1024 > 0

\* The duration a posted capture names, in tenths of a millisecond
SuppliedDuration(b) == IF b.responseTime # <<>> THEN b.responseTime ELSE b.duration

\* C19: a posted capture, valid in everything else, that names a duration d
\* as responseTime or as duration is accepted exactly when 0 <= d < 300000
\* ms, and the Request row it writes holds d rounded to the nearest
\* millisecond; any other d ends in a validation failure.
C19_DurationRange ==
    \A c \in Slots :
        (/\ pc[c] = "done" /\ call[c].kind = "route"
         /\ SuppliedDuration(call[c].body) # <<>>
         /\ ~InvalidCapture([requestDataOf(call[c]) EXCEPT !.responseTime = <<>>])) =>
            LET d == SuppliedDuration(call[c].body)[1] IN
            IF 0 <= d /\ d < 3000000
            THEN /\ result[c] # "VALIDATION_ERROR"
                 /\ \A r \in requests : r.owner = c =>
                        /\ r.duration # <<>>
                        /\ r.duration[1] * 10 - 5 <= d
                        /\ d < r.duration[1] * 10 + 5
            ELSE result[c] = "VALIDATION_ERROR"

\* C20: a posted capture that names a status code outside 100..599 ends in
\* a validation failure, and no Status row holds a code outside 100..599 or
\* no code.
C20_StatusCodeRange ==
    /\ \A c \in Slots :
          (/\ pc[c] = "done" /\ call[c].kind = "route"
           /\ call[c].body.statusCode # <<>>
           /\ call[c].body.statusCode[1] \notin 100..599) =>
              result[c] = "VALIDATION_ERROR"
    /\ \A r \in status : r.code # <<>> /\ r.code[1] \in 100..599

\* C21: whatever the interleaving of captures and cleanups, every committed
\* Request row that a step removes is removed by a cleanup at its destroy,
\* happened before that cleanup's cutoff, and was not inserted at or after
\* the moment the cleanup computed the cutoff.
C21_CleanupSparesNewRows ==
    [][\A r \in Committed(requests) \ requests' :
          \E c \in Slots :
              /\ pc[c] = "cleanup_destroy" /\ pc'[c] = "done"
              /\ r.happened < loc[c].cutoffDate
              /\ ~(r.happened >= loc[c].computedAt)]_vars

\* A cleanup has removed rows, and a Request captured after that cleanup
\* computed its cutoff is committed and still there.
C21_Witness ==
    \E c \in Slots :
        /\ call[c].kind = "cleanup" /\ pc[c] = "done" /\ result[c] = "success"
        /\ data[c].returned.data.deleted_count > 0
        /\ \E r \in Committed(requests) :
              r.owner \in Slots /\ r.happened > loc[c].computedAt

\* The committed Requests older than the cutoff of cleanup c that carry the
\* status code, respectively the method, the cleanup was called with
OlderWithFilter(c) ==
    {r \in Committed(requests) :
        /\ r.happened < loc[c].cutoffDate
        /\ call[c].op = "cleanupByStatus" => r.status_id[1] = call[c].statusCode
        /\ call[c].op = "cleanupByMethod" => r.method_id[1] = toUpperCase(call[c].method)}

\* C22: the destroy of cleanupByStatus or cleanupByMethod removes exactly the
\* Requests older than the cutoff with that status code or method, leaves
\* every other Request row as it was, and reports the number of rows removed
\* as deleted_count.
C22_FilteredCleanupExact ==
    [][\A c \in Slots :
          (/\ pc[c] = "cleanup_destroy" /\ pc'[c] = "done" /\ result'[c] = "success"
           /\ call[c].op \in {"cleanupByStatus", "cleanupByMethod"}) =>
              /\ requests \ requests' = OlderWithFilter(c)
              /\ requests' \subseteq requests
              /\ data'[c].returned.data.deleted_count = Cardinality(requests \ requests')]_vars

\* C23: a deleteRequest with a well-formed id that found its Request and met
\* no outage of the store has succeeded, and then no Request, request_headers
\* or Exception row of that id is left.
C23_DeleteCascades ==
    \A c \in Slots :
        (/\ call[c].kind = "delete" /\ pc[c] = "done"
         /\ isValidUUID(call[c].id)
         /\ result[c] # "NOT_FOUND"
         /\ fault[c].name # "connection") =>
            /\ result[c] = "success"
            /\ \A r \in requests \cup request_headers \cup exceptions :
                  r.request_id # call[c].id

\* C24: an endpoint that has answered a service result answered a
\* VALIDATION_ERROR with HTTP 400 and that kind, message and detail list, a
\* NOT_FOUND with HTTP 404 and that kind, a database or internal error with
\* HTTP 500, and a success with no error status.
C24_ErrorKindsMapToStatus ==
    \A c \in Slots :
        (call[c].kind \in {"cleanup", "delete"} /\ pc[c] = "done") =>
            LET returned == data[c].returned
                answer == data[c].answer
            IN IF returned.success
               THEN answer.status[1] < 400
               ELSE /\ returned.error.type = "VALIDATION_ERROR" =>
                          /\ answer.status = <<400>>
                          /\ answer.body.error = "VALIDATION_ERROR"
                          /\ answer.body.message = returned.error.message
                          /\ answer.body.details = returned.error.details
                    /\ returned.error.type = "NOT_FOUND" =>
                          answer.status = <<404>> /\ answer.body.error = "NOT_FOUND"
                    /\ returned.error.type \in {"DATABASE_ERROR", "INTERNAL_ERROR"} =>
                          answer.status = <<500>>

\* The entries of a call list made by one side for one function
CallsOf(calls, by, fn) == SelectSeq(calls, LAMBDA k : k.by = by /\ k.fn = fn)

\* Every call of a wrapper is followed at once by one call of the original it
\* wraps, with the same argument and receiver, and the originals are called
\* no other time.
WrappersCallOriginalsOnce(res) ==
    /\ \A i \in DOMAIN res.calls :
          res.calls[i].by = "wrapper" =>
              /\ i + 1 \in DOMAIN res.calls
              /\ res.calls[i + 1] = [res.calls[i] EXCEPT !.by = "original"]
    /\ \A fn \in {"json", "send"} :
          Len(CallsOf(res.calls, "original", fn)) = Len(CallsOf(res.calls, "wrapper", fn))

\* The client was written what the same answer writes through an unwrapped res.
ClientUnchanged(res, answer) == res.client = Answered(FreshRes(FALSE), answer).client

\* The closure's copy is the body passed to res.json, or else the first body
\* passed to res.send.
CopyIsAnsweredBody(res) ==
    IF CallsOf(res.calls, "wrapper", "json") # <<>>
    THEN res.responseBody = CallsOf(res.calls, "wrapper", "json")[1].arg
    ELSE res.responseBody = CallsOf(res.calls, "wrapper", "send")[1].arg

\* C25: for every captured request that was answered, the wrappers called
\* the originals exactly once each time with the same argument and receiver,
\* the client received what it receives without the middleware, and the copy
\* kept for the completion handler is the body passed to res.json, or else
\* the first body passed to res.send.
C25_ResponseCaptureTransparent ==
    \A c \in Slots :
        (call[c].kind = "monitored" /\ call[c].capture /\ call[c].finished) =>
            /\ WrappersCallOriginalsOnce(call[c].res)
            /\ ClientUnchanged(call[c].res, call[c].answer[1])
            /\ CopyIsAnsweredBody(call[c].res)

\* C26: a monitored request has been passed on by the middleware as soon as
\* the middleware ran; as long as its response is not finished no capture
\* record exists and no capture call was made for it; the record is built
\* only once the response is finished.
C26_CaptureAfterResponse ==
    \A c \in Slots :
        call[c].kind = "monitored" =>
            /\ call[c].next # <<>>
            /\ call[c].requestData # <<>> => call[c].finished
            /\ ~call[c].finished =>
                  /\ pc[c] \in {"handling", "passed"}
                  /\ result[c] = "none"
                  /\ c \notin logged

\* A captured request was answered, and its capture record was then built
\* and handed to the controller.
C26_Witness ==
    \E c \in Slots :
        /\ call[c].kind = "monitored" /\ call[c].capture /\ call[c].finished
        /\ call[c].requestData # <<>> /\ pc[c] = "done"

\* C30: for every monitored request, captured or not, the middleware called
\* next exactly once and without an argument, and registered at most one
\* completion handler; a captured request has exactly one capture record.
C30_NextExactlyOnce ==
    \A c \in Slots :
        call[c].kind = "monitored" =>
            /\ call[c].next = <<"next()">>
            /\ call[c].finishHandlers <= 1
            /\ call[c].finishHandlers = (IF call[c].capture THEN 1 ELSE 0)
            /\ Len(call[c].requestData) <= 1

\* One request went through captured and finished with its record built,
\* another was passed on without capture and finished.
C30_Witness ==
    \E c, d \in Slots :
        /\ call[c].kind = "monitored" /\ call[c].capture /\ pc[c] = "done"
        /\ Len(call[c].requestData) = 1
        /\ call[d].kind = "monitored" /\ ~call[d].capture /\ pc[d] = "done"
        /\ call[d].finished

\* C27: after any sequence of connect and disconnect events the connections
\* map holds exactly the ids of the sockets that connected and have not
\* disconnected, each mapped to its own socket handle and to nothing else,
\* and no handling of a new connection raised.
C27_ConnectionRegistry ==
    /\ DOMAIN connections = {id \in SocketIds : sockets[id] = "connected"}
    /\ \A id \in DOMAIN connections : connections[id] = socketHandle(id)
    /\ raised = {}

\* The capture a slot committed: its Request row
CommittedCaptureOf(c) ==
    {r \in Committed(requests) : r.owner = c /\ call[c].kind = "route"}

\* The headers the service holds for the capture of slot c
CapturedHeaders(c) == sanitizeHeaders(requestDataOf(call[c]).headers)

\* The captured headers hold the name with a non-empty value
NonEmpty(c, name) ==
    name \in DOMAIN CapturedHeaders(c) /\ CapturedHeaders(c)[name] # ""

AllowListed == {importantHeaders[i] : i \in 1..Len(importantHeaders)}

\* The Header rows a request is linked to
LinkedHeaders(rid) ==
    {h \in headers : \E l \in request_headers :
                        l.request_id = rid /\ l.header_id = HeaderId(h)}

\* C28: a committed capture has exactly one request_headers row for each
\* allow-listed header name that its captured headers hold with a non-empty
\* value and none for any other name, and each linked Header row is the only
\* Header row with that lower-case name, so that captures of the same header
\* share it.
C28_HeaderAllowList ==
    \A c \in Slots : \A r \in CommittedCaptureOf(c) :
        LET links == {l \in request_headers : l.request_id = r.request_id}
        IN /\ \A l \in links :
                 /\ l.committed
                 /\ \E h \in Committed(headers) : HeaderId(h) = l.header_id
           /\ {h.name : h \in LinkedHeaders(r.request_id)} =
                 {name \in AllowListed : NonEmpty(c, name)}
           /\ Cardinality(links) = Cardinality(LinkedHeaders(r.request_id))
           /\ \A h \in LinkedHeaders(r.request_id) :
                 Cardinality({g \in headers : g.name = h.name}) = 1

\* Two captures that both carry an accept header are committed and linked to
\* the same Header row; one of them also carried an empty origin, a host and
\* a user-agent.
C28_Witness ==
    /\ \A c \in Slots : CommittedCaptureOf(c) # {} /\ NonEmpty(c, "accept")
    /\ \E c \in Slots : call[c].body.headers = <<MixedHeaders>>
    /\ \E h \in Committed(headers) :
          /\ h.name = "accept"
          /\ \A c \in Slots : \A r \in CommittedCaptureOf(c) :
                h \in LinkedHeaders(r.request_id)

\* The request body and the response body the capture of slot c was given
GivenRequestBody(c) == requestDataOf(call[c]).requestBody

GivenResponseBody(c) == requestDataOf(call[c]).responseBody

\* C29: a committed capture has a Payload row, holding the body and the
\* origin IP, if and only if a non-empty request body was captured, and a
\* Response row if and only if a response body was captured; otherwise the
\* Request's payload_id, respectively response_id, is null; and every Payload
\* or Response row is referenced by exactly one Request.
C29_ConditionalPayloadResponse ==
    /\ \A c \in Slots : \A r \in CommittedCaptureOf(c) :
          /\ IF GivenRequestBody(c) \notin {Undefined, Null, "", EmptyObject}
             THEN \E p \in Committed(payloads) :
                     /\ p.payload_id = r.payload_id
                     /\ p.payload_json = sanitizeJsonData(GivenRequestBody(c))
                     /\ p.sent_from = requestDataOf(call[c]).ipAddress
             ELSE r.payload_id = NoId
          /\ IF GivenResponseBody(c) \notin {Undefined, Null, ""}
             THEN \E p \in Committed(responses) :
                     /\ p.response_id = r.response_id
                     /\ p.content = sanitizeJsonData(GivenResponseBody(c))
             ELSE r.response_id = NoId
    /\ \A p \in Committed(payloads) :
          Cardinality({r \in requests : r.payload_id = p.payload_id}) = 1
    /\ \A p \in Committed(responses) :
          Cardinality({r \in requests : r.response_id = p.response_id}) = 1

====
